---- MODULE Spec2Model ----
(***************************************************************************)
(* Model of the interactive engine of bbq (crates/bbq-cli/src/tui): the    *)
(* App state machine (app.rs), the worker thread and the filesystem        *)
(* watcher (worker.rs) and the two mpsc channels between them.             *)
(*                                                                         *)
(* Strings typed by the user (prompt buffers, worktree names, branch       *)
(* names) are sequences of one-character strings; repo names, status       *)
(* texts and enum variants are TLA+ strings.  Option<T> is modelled by a   *)
(* distinguished value of the same shape: None for strings, NoSel and      *)
(* NoId for indices and ids, <<>> for typed names, NoPair for the pair.   *)
(*                                                                         *)
(* handle_worker_events drains the event channel with try_recv; the model  *)
(* processes one event per step.  An event that is still in the channel    *)
(* when a key is handled is indistinguishable, for the App, from an event  *)
(* the worker sends a little later, so both give the same behaviours.      *)
(***************************************************************************)
EXTENDS Integers, Sequences, FiniteSets, TLC

VARIABLES app, worker, ui_git, prompts_opened, now, ui, last_event, watch_rx, disk

vars == <<app, worker, ui_git, prompts_opened, now, ui, last_event, watch_rx, disk>>

\* now is Instant::now() in milliseconds, ui the place of the UI thread in
\* run_app, last_event the local of the watcher thread, watch_rx the channel
\* the notify callback fills, disk the files under the bbq root
env == <<now, ui, last_event, watch_rx, disk>>

----------------------------------------------------------------------------
(* Bounds of the model *)

\* largest request id the model lets the App allocate
MaxSeq == 3
\* capacity the model gives each of the two channels
MaxQueue == 1
\* most prompts the user opens in one session
MaxPrompts == 1
\* longest prompt buffer the model lets the user type
MaxBuf == 1
\* most events waiting for the UI thread when they are delivered in any order
MaxInFlight == 2
\* most worktrees of one repo
MaxWorktrees == 2
\* longest buffer the user types in the sessions about prompts
MaxTyped == 2
\* longest buffer given to the confirmation prompts
MaxConfirm == 3
\* the loading indicators on their own are started in the first milliseconds
MaxStarted == 2
\* the sessions that follow the clock end at this many milliseconds
MaxClock == 8000
MaxNotified == 2
MaxWatched == 600
\* the milliseconds during which the file system changes
MaxActive == 300

----------------------------------------------------------------------------
(* Values *)

None == "None"
NoSel == 0 - 1
NoId == 0 - 1
\* Option<String> of a typed string: no worktree name, a detached HEAD
NoName == <<>>
NoBranch == <<>>
NoPair == [repo |-> None, name |-> NoName]

RepoNames == {"r1", "r2"}
Chars == {"y", " "}
NameChars == {"y", "b"}
\* worktree directory names and branch names that can exist on disk
WtNames == {<<"y">>, <<"b">>}
BranchNames == {<<"y">>, <<"b">>}

\* "origin/main", kept as one symbol of the alphabet
DEFAULT_SOURCE_BRANCH == <<"origin/main">>

Range(s) == {s[i] : i \in DOMAIN s}

SeqsUpTo(S, n) == UNION {[1..k -> S] : k \in 0..n}

NoDup(s) == \A i, j \in DOMAIN s : i # j => s[i] # s[j]

\* the bounded buffers a user can type
Buffers == SeqsUpTo(Chars, MaxBuf)

----------------------------------------------------------------------------
(* model.rs, types.rs *)

\* Worktree::display_name: the last component of the path (the model keeps
\* only that component), else the branch
display_name(worktree) ==
    IF worktree.path # NoName THEN worktree.path ELSE worktree.branch

Worktrees == [path : WtNames, branch : BranchNames]

WorktreeEntries == [worktree : Worktrees, changed_files : {0}]

\* every worktree list git can report for one repo over these names:
\* directories are distinct and a branch is checked out in at most one worktree
AllWtLists ==
    {l \in SeqsUpTo(WorktreeEntries, MaxWorktrees) :
        /\ NoDup([i \in DOMAIN l |-> l[i].worktree.path])
        /\ NoDup([i \in DOMAIN l |-> l[i].worktree.branch])}

\* the worktrees on disk in the sessions the model runs: directory b on branch
\* y, and later a newer directory y on branch b (newest first in the list)
EntryA == [worktree |-> [path |-> <<"y">>, branch |-> <<"b">>], changed_files |-> 0]
EntryB == [worktree |-> [path |-> <<"b">>, branch |-> <<"y">>], changed_files |-> 0]

\* the worktree lists of a repo in those sessions; only r1 has worktrees
WtLists(name) == IF name = "r1" THEN {<<>>, <<EntryB>>, <<EntryA, EntryB>>} ELSE {<<>>}

\* the repo lists list_repos can report: directory names are distinct
RepoSeqs == {s \in SeqsUpTo(RepoNames, 2) : NoDup(s)}

NoItem == [kind |-> None]
NoKey == [kind |-> None, repo |-> None, name |-> NoName]
NoInput == [kind |-> None, repo |-> None, name |-> NoName, source_branch |-> NoBranch,
            buffer |-> <<>>, origin |-> None]
NoStatus == [tone |-> None, text |-> None]
NoRequest == [type |-> None]

----------------------------------------------------------------------------
(* app.rs: the tree and the selection *)

\* HashMap::get on repo_worktrees: the entries of the repo, <<>> when absent
worktrees_of(repo_worktrees, name) ==
    IF name \in DOMAIN repo_worktrees THEN repo_worktrees[name] ELSE <<>>

repo_item(repo_worktrees, expanded_repos, name) ==
    [kind |-> "Repo", name |-> name, expanded |-> name \in expanded_repos,
     worktree_count |-> Len(worktrees_of(repo_worktrees, name))]

worktree_items(repo_worktrees, name) ==
    LET entries == worktrees_of(repo_worktrees, name)
    IN [i \in DOMAIN entries |-> [kind |-> "Worktree", repo |-> name, entry |-> entries[i]]]

RECURSIVE build_tree_items(_, _, _)
build_tree_items(repos, repo_worktrees, expanded_repos) ==
    IF repos = <<>> THEN <<>>
    ELSE LET name == Head(repos)
         IN <<repo_item(repo_worktrees, expanded_repos, name)>>
            \o (IF name \in expanded_repos
                THEN worktree_items(repo_worktrees, name) ELSE <<>>)
            \o build_tree_items(Tail(repos), repo_worktrees, expanded_repos)

tree_item_key(item) ==
    IF item.kind = "Repo" THEN [kind |-> "Repo", repo |-> item.name, name |-> NoName]
    ELSE [kind |-> "Worktree", repo |-> item.repo,
          name |-> display_name(item.entry.worktree)]

tree_item_matches_key(item, key) ==
    IF item.kind = "Repo" /\ key.kind = "Repo" THEN item.name = key.repo
    ELSE IF item.kind = "Worktree" /\ key.kind = "Worktree"
    THEN IF item.repo # key.repo THEN FALSE
         ELSE IF display_name(item.entry.worktree) = key.name THEN TRUE
         ELSE item.entry.worktree.branch # NoBranch
              /\ item.entry.worktree.branch = key.name
    ELSE FALSE

\* the selection is a 0-based index as in ListState; item i is tree_items[i + 1]
selected_tree_item(a) ==
    IF a.selected # NoSel /\ a.selected < Len(a.tree_items)
    THEN a.tree_items[a.selected + 1] ELSE NoItem

has_selected_item(a) == a.selected # NoSel /\ a.selected < Len(a.tree_items)

selected_tree_key(a) ==
    IF has_selected_item(a) THEN tree_item_key(selected_tree_item(a)) ELSE NoKey

Min(x, y) == IF x < y THEN x ELSE y

\* a selection left where it was
clamp_selection_kept(selected, len) == selected

clamp_selection(selected, len) ==
    IF len = 0 THEN NoSel
    ELSE Min(IF selected = NoSel THEN 0 ELSE selected, len - 1)

\* the first index whose item matches the key, NoSel when there is none
find_tree_key(tree_items, key) ==
    LET hits == {i \in DOMAIN tree_items : tree_item_matches_key(tree_items[i], key)}
    IN IF hits = {} THEN NoSel
       ELSE (CHOOSE i \in hits : \A j \in hits : i <= j) - 1

select_tree_key(a, key) ==
    LET idx == find_tree_key(a.tree_items, key)
    IN IF idx # NoSel THEN [a EXCEPT !.selected = idx] ELSE a

rebuild_tree_items(a, preferred) ==
    LET items == build_tree_items(a.repos, a.repo_worktrees, a.expanded_repos)
        a1 == [a EXCEPT !.tree_items = items,
                        !.selected = clamp_selection(a.selected, Len(items))]
    IN IF preferred # NoKey THEN select_tree_key(a1, preferred) ELSE a1

move_state(selected, len, delta) ==
    IF len = 0 THEN NoSel
    ELSE LET current == IF selected = NoSel THEN 0 ELSE selected
         IN IF delta < 0
            THEN (IF current = 0 THEN len - 1 ELSE current - 1)
            ELSE (IF current >= len - 1 THEN 0 ELSE current + 1)

move_selection(a, delta) ==
    IF a.focus = "List"
    THEN [a EXCEPT !.selected = move_state(a.selected, Len(a.tree_items), delta)]
    ELSE a

selected_repo_name(a) ==
    IF ~has_selected_item(a) THEN None
    ELSE IF selected_tree_item(a).kind = "Repo" THEN selected_tree_item(a).name
    ELSE selected_tree_item(a).repo

\* Some(repo) when a repo of that name is loaded
selected_repo(a) ==
    IF selected_repo_name(a) \in Range(a.repos) THEN selected_repo_name(a) ELSE None

selected_worktree_entry(a) ==
    IF has_selected_item(a) /\ selected_tree_item(a).kind = "Worktree"
    THEN selected_tree_item(a).entry ELSE NoItem

has_selected_worktree(a) ==
    has_selected_item(a) /\ selected_tree_item(a).kind = "Worktree"

----------------------------------------------------------------------------
(* app.rs: status, loading indicators, requests *)

clear_status(a) == [a EXCEPT !.status = NoStatus]

STATUS_MIN_MS == 2000
STATUS_PER_CHAR_MS == 30
STATUS_MAX_MS == 8000

\* the u64 arithmetic saturates far above STATUS_MAX_MS
status_duration(message) ==
    Min(STATUS_MIN_MS + STATUS_PER_CHAR_MS * Len(message), STATUS_MAX_MS)

set_status_tone(a, message, tone) ==
    IF message = "" THEN clear_status(a)
    ELSE [a EXCEPT !.status = [tone |-> tone, text |-> message,
                               deadline |-> now + status_duration(message)]]

set_status(a, message) == set_status_tone(a, message, "Success")

set_error(a, message) == set_status_tone(a, message, "Error")

\* a check that lets the status live through the instant of its deadline
update_status_late(a) ==
    IF a.status = NoStatus THEN a
    ELSE IF now > a.status.deadline THEN [a EXCEPT !.status = NoStatus] ELSE a

update_status(a) ==
    IF a.status = NoStatus THEN a
    ELSE IF now >= a.status.deadline THEN [a EXCEPT !.status = NoStatus] ELSE a

\* Vec::retain(|item| item.group != group)
RECURSIVE retain_other_groups(_, _)
retain_other_groups(loading, group) ==
    IF loading = <<>> THEN <<>>
    ELSE IF Head(loading).group = group THEN retain_other_groups(Tail(loading), group)
    ELSE <<Head(loading)>> \o retain_other_groups(Tail(loading), group)

clear_loading(a, group) ==
    [a EXCEPT !.loading = retain_other_groups(a.loading, group)]

\* a push without the retain
set_loading_stacked(a, group, message, priority) ==
    IF message = "" THEN clear_loading(a, group)
    ELSE LET a1 == IF priority = "Action" THEN clear_status(a) ELSE a
         IN [a1 EXCEPT !.loading =
                Append(a1.loading,
                       [group |-> group, text |-> message, started_at |-> now,
                        priority |-> priority])]

set_loading(a, group, message, priority) ==
    IF message = "" THEN clear_loading(a, group)
    ELSE LET a1 == IF priority = "Action" THEN clear_status(a) ELSE a
         IN [a1 EXCEPT !.loading =
                Append(retain_other_groups(a1.loading, group),
                       [group |-> group, text |-> message, started_at |-> now,
                        priority |-> priority])]

loading_message(a, group) == \E i \in DOMAIN a.loading : a.loading[i].group = group

\* LoadingPriority::rank
rank(priority) == IF priority = "Action" THEN 1 ELSE 0

\* the loop of current_loading from item i on, best being the choice so far
RECURSIVE current_loading_from(_, _, _)
current_loading_from(loading, i, best) ==
    IF i > Len(loading) THEN best
    ELSE LET item == loading[i]
         IN current_loading_from(loading, i + 1,
               IF \/ rank(item.priority) > rank(best.priority)
                  \/ /\ rank(item.priority) = rank(best.priority)
                     /\ item.started_at < best.started_at
               THEN item ELSE best)

NoLoading == [group |-> None]

current_loading(a) ==
    IF a.loading = <<>> THEN NoLoading
    ELSE current_loading_from(a.loading, 2, a.loading[1])

\* worker_tx.send
send(a, request) == [a EXCEPT !.worker_tx = Append(a.worker_tx, request)]

\* a counter that hands out the id it already gave
next_request_id_again(a) == a

\* request_seq.wrapping_add(1): the counter starts at 0 and no session of the
\* model sends more than MaxSeq reloads, so the sum stays below 2^64
next_request_id(a) == [a EXCEPT !.request_seq = a.request_seq + 1]

request_env_info(a) ==
    send(set_loading(a, "EnvInfo", "Loading environment", "Background"),
         [type |-> "LoadEnvInfo"])

\* a request that leaves the id of an older pending request in place
request_all_data_keeping(a, silent) ==
    LET a1 == next_request_id(a)
        request_id == a1.request_seq
        a2 == [a1 EXCEPT !.pending_all_request =
                            IF a.pending_all_request # NoId THEN a.pending_all_request
                            ELSE request_id,
                         !.needs_reload = FALSE]
        a3 == IF ~silent
              THEN set_loading(set_loading(a2, "Repos", "Loading repos", "Background"),
                               "Worktrees", "Loading worktrees", "Background")
              ELSE a2
    IN send(a3, [type |-> "LoadAll", request_id |-> request_id])

request_all_data(a, silent) ==
    LET a1 == next_request_id(a)
        request_id == a1.request_seq
        a2 == [a1 EXCEPT !.pending_all_request = request_id, !.needs_reload = FALSE]
        a3 == IF ~silent
              THEN set_loading(set_loading(a2, "Repos", "Loading repos", "Background"),
                               "Worktrees", "Loading worktrees", "Background")
              ELSE a2
    IN send(a3, [type |-> "LoadAll", request_id |-> request_id])

----------------------------------------------------------------------------
(* app.rs: expanding and collapsing *)

repo_key(name) == [kind |-> "Repo", repo |-> name, name |-> NoName]

toggle_selected_repo(a) ==
    IF has_selected_item(a) /\ selected_tree_item(a).kind = "Repo"
    THEN LET repo_name == selected_tree_item(a).name
             a1 == IF repo_name \in a.expanded_repos
                   THEN [a EXCEPT !.expanded_repos = @ \ {repo_name}]
                   ELSE [a EXCEPT !.expanded_repos = @ \cup {repo_name}]
         IN rebuild_tree_items(a1, repo_key(repo_name))
    ELSE a

\* a collapse that leaves the old items in place
collapse_selected_stale(a) ==
    IF ~has_selected_item(a) THEN a
    ELSE [a EXCEPT !.expanded_repos = @ \ {selected_repo_name(a)}]

collapse_selected(a) ==
    IF ~has_selected_item(a) THEN a
    ELSE LET repo_name == selected_repo_name(a)
         IN IF repo_name \in a.expanded_repos
            THEN rebuild_tree_items([a EXCEPT !.expanded_repos = @ \ {repo_name}],
                                    repo_key(repo_name))
            ELSE a

expand_selected(a) ==
    IF has_selected_item(a) /\ selected_tree_item(a).kind = "Repo"
    THEN LET repo_name == selected_tree_item(a).name
         IN IF repo_name \notin a.expanded_repos
            THEN rebuild_tree_items([a EXCEPT !.expanded_repos = @ \cup {repo_name}],
                                    repo_key(repo_name))
            ELSE a
    ELSE a

----------------------------------------------------------------------------
(* strings: str::trim, to_ascii_lowercase, starts_with; validate.rs *)

is_whitespace(ch) == ch = " "

RECURSIVE trim_start(_)
trim_start(str) ==
    IF str # <<>> /\ is_whitespace(Head(str)) THEN trim_start(Tail(str)) ELSE str

RECURSIVE trim_end(_)
trim_end(str) ==
    IF str # <<>> /\ is_whitespace(str[Len(str)])
    THEN trim_end(SubSeq(str, 1, Len(str) - 1)) ELSE str

trim(str) == trim_end(trim_start(str))

ascii_lowercase(ch) ==
    CASE ch = "Y" -> "y" [] ch = "E" -> "e" [] ch = "S" -> "s" [] ch = "B" -> "b"
      [] ch = "D" -> "d" [] ch = "I" -> "i" [] ch = "C" -> "c" [] ch = "A" -> "a"
      [] ch = "R" -> "r"
      [] OTHER -> ch

to_ascii_lowercase(str) == [i \in DOMAIN str |-> ascii_lowercase(str[i])]

\* word.starts_with(prefix)
starts_with(word, prefix) ==
    Len(prefix) <= Len(word) /\ SubSeq(word, 1, Len(prefix)) = prefix

AlnumChars ==
    {"y", "b", "e", "s", "o", "r", "i", "g", "n", "m", "a", "d", "c",
     "Y", "E", "S", "D", "I", "C", "A", "R"}

is_worktree_char(ch) == ch \in AlnumChars \cup {"-", "_", "."}

is_branch_char(ch) == is_worktree_char(ch) \/ ch = "/" \/ ch = "origin/main"

\* "" stands for Ok(()), any other text for Err(text)
validate_worktree_name(name) ==
    IF name = <<>> THEN "Worktree name required"
    ELSE IF \E i \in DOMAIN name : is_whitespace(name[i])
    THEN "Worktree name cannot contain spaces"
    ELSE IF \E i \in DOMAIN name : ~is_worktree_char(name[i])
    THEN "Worktree name can only use letters, numbers, '-', '_', or '.'"
    ELSE ""

\* a validator that accepts every name
validate_branch_name_lax(name) == ""

validate_branch_name(name) ==
    IF name = <<>> THEN "Branch name required"
    ELSE IF \E i \in DOMAIN name : is_whitespace(name[i])
    THEN "Branch name cannot contain spaces"
    ELSE IF Head(name) = "/" \/ name[Len(name)] = "/"
    THEN "Branch name cannot start or end with '/'"
    ELSE IF \E i \in DOMAIN name : ~is_branch_char(name[i])
    THEN "Branch name can only use letters, numbers, '-', '_', '.', or '/'"
    ELSE ""

\* a confirmation that does not trim
delete_confirmed_untrimmed(input) ==
    IF input = <<>> THEN FALSE
    ELSE starts_with(<<"y", "e", "s">>, to_ascii_lowercase(input))

delete_confirmed(input) ==
    LET trimmed == trim(input)
    IN IF trimmed = <<>> THEN FALSE
       ELSE starts_with(<<"y", "e", "s">>, to_ascii_lowercase(trimmed))

discard_confirmed(input) ==
    LET trimmed == trim(input)
    IN IF trimmed = <<>> THEN FALSE
       ELSE starts_with(<<"d", "i", "s", "c", "a", "r", "d">>, to_ascii_lowercase(trimmed))

\* config.rs default_branch_name with the github prefix switched off
default_branch_name(worktree_name) == worktree_name

----------------------------------------------------------------------------
(* app.rs: prompts *)

\* a prompt that always opens empty
prompt_blank(kind, repo, name, source_branch, buffer, origin) ==
    [kind |-> kind, repo |-> repo, name |-> name, source_branch |-> source_branch,
     buffer |-> <<>>, origin |-> origin]

prompt(kind, repo, name, source_branch, buffer, origin) ==
    [kind |-> kind, repo |-> repo, name |-> name, source_branch |-> source_branch,
     buffer |-> buffer, origin |-> origin]

\* a prompt opened without moving the focus to it
open_input_unfocused(a, kind, repo, name, buffer) ==
    [a EXCEPT !.input = prompt(kind, repo, name, NoBranch, buffer, a.focus)]

open_input(a, kind, repo, name, buffer) ==
    [a EXCEPT !.input = prompt(kind, repo, name, NoBranch, buffer, a.focus),
              !.focus = "Input"]

open_checkout_prompt(a) == open_input(a, "CheckoutRepo", None, NoName, <<>>)

\* default_name is what suggest_worktree_name returns
open_worktree_prompt(a, default_name) ==
    IF selected_repo(a) = None THEN set_error(a, "Select a repo first")
    ELSE open_input(a, "CreateWorktreeName", selected_repo(a), NoName, default_name)

open_delete_worktree_prompt(a) ==
    IF selected_repo(a) = None THEN set_error(a, "Select a repo first")
    ELSE IF ~has_selected_worktree(a) THEN set_error(a, "Select a worktree first")
    ELSE open_input(a, "DeleteWorktree", selected_repo(a),
                    display_name(selected_worktree_entry(a).worktree), <<>>)

open_delete_prompt(a) ==
    IF ~has_selected_item(a) THEN set_error(a, "Select a repo or worktree to delete")
    ELSE IF selected_tree_item(a).kind = "Repo"
    THEN open_input(a, "DeleteRepo", selected_tree_item(a).name, NoName, <<>>)
    ELSE open_delete_worktree_prompt(a)

\* the names suggest_worktree_name can return: "" without a naming mode (the
\* source branch is the default source), else a city name not in use
existing_worktree_names(a, repo) ==
    {display_name(e.worktree) : e \in Range(worktrees_of(a.repo_worktrees, repo))}

suggest_worktree_name(a, repo) ==
    {<<>>} \cup (WtNames \ existing_worktree_names(a, repo))

\* a count that sees no changed file
worktree_change_count_none(a, repo, name) == 0

worktree_change_count(a, repo, name) ==
    LET entries == worktrees_of(a.repo_worktrees, repo)
        hits == {i \in DOMAIN entries : display_name(entries[i].worktree) = name}
    IN IF hits = {} THEN 0
       ELSE entries[CHOOSE i \in hits : \A j \in hits : i <= j].changed_files

\* the result is the App and the focus submit_input returns (None for None)
submitted(a, focus) == [app |-> a, focus |-> focus]

submit_input(a, input, default_source) ==
    CASE input.kind = "CheckoutRepo" ->
           LET url == trim(input.buffer)
           IN IF url = <<>> THEN submitted(set_error(a, "Git url required"), None)
              ELSE submitted(send(set_loading(a, "Action", "Cloning repo", "Action"),
                                  [type |-> "CheckoutRepo", url |-> url]), None)
      [] input.kind = "CreateWorktreeName" ->
           LET name == trim(input.buffer)
               message == validate_worktree_name(name)
           IN IF message # ""
              THEN submitted([set_error(a, message) EXCEPT !.input =
                                prompt("CreateWorktreeName", input.repo, NoName, NoBranch,
                                       input.buffer, input.origin)], "Input")
              ELSE submitted([a EXCEPT !.input =
                                prompt("CreateWorktreeSource", input.repo, name, NoBranch,
                                       default_source, input.origin)], "Input")
      [] input.kind = "CreateWorktreeSource" ->
           LET source_branch == trim(input.buffer)
               message == validate_branch_name(source_branch)
               default_branch == IF source_branch = default_source
                                 THEN default_branch_name(input.name)
                                 ELSE source_branch
           IN IF message # ""
              THEN submitted([set_error(a, message) EXCEPT !.input =
                                prompt("CreateWorktreeSource", input.repo, input.name,
                                       NoBranch, input.buffer, input.origin)], "Input")
              ELSE submitted([a EXCEPT !.input =
                                prompt("CreateWorktreeBranch", input.repo, input.name,
                                       source_branch, default_branch, input.origin)],
                             "Input")
      [] input.kind = "CreateWorktreeBranch" ->
           LET branch == trim(input.buffer)
               message == validate_branch_name(branch)
           IN IF message # ""
              THEN submitted([set_error(a, message) EXCEPT !.input =
                                prompt("CreateWorktreeBranch", input.repo, input.name,
                                       input.source_branch, input.buffer, input.origin)],
                             "Input")
              ELSE submitted(send(set_loading(a, "Action", "Creating worktree", "Action"),
                                  [type |-> "CreateWorktree", repo |-> input.repo,
                                   name |-> input.name, branch |-> branch,
                                   source_branch |-> input.source_branch]), None)
      [] input.kind = "DeleteRepo" ->
           IF ~delete_confirmed(input.buffer)
           THEN submitted(set_status(a, "Delete canceled"), None)
           ELSE submitted(send(set_loading(a, "Action", "Deleting repo", "Action"),
                               [type |-> "DeleteRepo", name |-> input.repo]), None)
      [] input.kind = "DeleteWorktree" ->
           IF ~delete_confirmed(input.buffer)
           THEN submitted(set_status(a, "Delete canceled"), None)
           ELSE IF worktree_change_count(a, input.repo, input.name) > 0
           THEN submitted([set_error(a, "Type 'discard' to delete and lose those changes.")
                             EXCEPT !.input =
                                prompt("DeleteWorktreeForce", input.repo, input.name,
                                       NoBranch, <<>>, input.origin)], "Input")
           ELSE submitted(send(set_loading(a, "Action", "Deleting worktree", "Action"),
                               [type |-> "DeleteWorktree", repo |-> input.repo,
                                name |-> input.name, force |-> FALSE]), None)
      [] input.kind = "DeleteWorktreeForce" ->
           IF ~discard_confirmed(input.buffer)
           THEN submitted(set_status(a, "Delete canceled"), None)
           ELSE submitted(send(set_loading(a, "Action", "Deleting worktree", "Action"),
                               [type |-> "DeleteWorktree", repo |-> input.repo,
                                name |-> input.name, force |-> TRUE]), None)

\* submit_input calls default_source_branch, which runs git in the repo, on
\* the two steps of the wizard that pass validation
submit_runs_git(input) ==
    \/ input.kind = "CreateWorktreeName" /\ validate_worktree_name(trim(input.buffer)) = ""
    \/ input.kind = "CreateWorktreeSource" /\ validate_branch_name(trim(input.buffer)) = ""

\* an Enter that submits the prompt for the repo selected now
handle_input_enter_selected(a, default_source) ==
    IF a.input = NoInput THEN a
    ELSE LET input == [a.input EXCEPT !.repo = selected_repo_name(a)]
             r == submit_input([a EXCEPT !.input = NoInput], input, default_source)
         IN [r.app EXCEPT !.focus = IF r.focus = None THEN input.origin ELSE r.focus]

handle_input_enter(a, default_source) ==
    IF a.input = NoInput THEN a
    ELSE LET input == a.input
             r == submit_input([a EXCEPT !.input = NoInput], input, default_source)
         IN [r.app EXCEPT !.focus = IF r.focus = None THEN input.origin ELSE r.focus]

\* an Escape that forgets the focus
handle_input_esc_stuck(a) == [a EXCEPT !.input = NoInput]

handle_input_esc(a) ==
    IF a.input = NoInput THEN a
    ELSE [a EXCEPT !.focus = a.input.origin, !.input = NoInput]

handle_input_backspace(a) ==
    IF a.input = NoInput \/ a.input.buffer = <<>> THEN a
    ELSE [a EXCEPT !.input.buffer = SubSeq(@, 1, Len(@) - 1)]

handle_input_char(a, ch) ==
    IF a.input = NoInput THEN a ELSE [a EXCEPT !.input.buffer = Append(@, ch)]

----------------------------------------------------------------------------
(* app.rs: the setup wizard and the update prompt *)

NoSetup == [step |-> None]
NoUpdatePrompt == [selected |-> NoSel]

\* UPDATE_PROMPT_OPTIONS
UPDATE_PROMPT_OPTIONS ==
    <<"run: brew upgrade bbq", "not right now", "never ask again">>

\* UpdatePromptState::new
new_update_prompt == [selected |-> 0, running |-> FALSE, completed |-> FALSE]

\* default_worktree_name_options
default_worktree_name_options ==
    <<[label |-> "cities", value |-> "cities"], [label |-> "no defaults", value |-> ""]>>

\* editor_options: one option for each editor detect_open_targets finds, or
\* the option without a value when it finds none
EditorOptions ==
    {<<[label |-> "Configure later", value |-> None]>>,
     <<[label |-> "Zed", value |-> "zed"], [label |-> "VS Code", value |-> "code"]>>}

\* terminal_options: the terminals that are installed, Terminal.app when none
TerminalOptions ==
    {<<[label |-> "Terminal.app", value |-> "Terminal"]>>,
     <<[label |-> "Terminal.app", value |-> "Terminal"],
       [label |-> "iTerm", value |-> "iTerm"],
       [label |-> "Warp", value |-> "Warp"]>>}

\* what the machine offers: the options of the editor and the terminal step,
\* and whether the executable is under /Cellar/bbq/ (is_homebrew_install)
Machines == [editor : EditorOptions, terminal : TerminalOptions, homebrew : BOOLEAN]

\* SetupState::from_step
from_step(step, machine) ==
    [step |-> step,
     options |-> CASE step = "DefaultWorktreeName" -> default_worktree_name_options
                   [] step = "Editor" -> machine.editor
                   [] step = "Terminal" -> machine.terminal,
     selected |-> 0]

\* a wizard that keeps showing the step it showed
start_setup_step_stale(a, machine) ==
    IF a.setup_steps = <<>> THEN [a EXCEPT !.setup = NoSetup]
    ELSE IF a.setup # NoSetup THEN a
    ELSE [a EXCEPT !.setup = from_step(Head(a.setup_steps), machine)]

start_setup_step(a, machine) ==
    IF a.setup_steps = <<>> THEN [a EXCEPT !.setup = NoSetup]
    ELSE [a EXCEPT !.setup = from_step(Head(a.setup_steps), machine)]

\* config is what load_config() reads
init_setup_state(a, config, machine) ==
    LET steps == (IF ~config.default_worktree_name_set
                  THEN <<"DefaultWorktreeName">> ELSE <<>>)
                 \o (IF config.editor = None THEN <<"Editor">> ELSE <<>>)
                 \o (IF config.terminal = None THEN <<"Terminal">> ELSE <<>>)
    IN start_setup_step([a EXCEPT !.setup_steps = steps], machine)

\* is_newer_version(known_latest_version, BBQ_VERSION): the model has the
\* running version and one newer version
is_newer_version(latest) == latest = "newer"

init_update_prompt(a, config, machine) ==
    IF ~config.check_updates THEN a
    ELSE IF ~config.force_upgrade_prompt /\ ~machine.homebrew THEN a
    ELSE IF config.known_latest_version = None THEN a
    ELSE IF is_newer_version(config.known_latest_version)
    THEN [a EXCEPT !.update_prompt = new_update_prompt]
    ELSE a

request_update_check(a, config, machine) ==
    IF ~config.check_updates THEN a
    ELSE IF ~config.force_upgrade_prompt /\ ~machine.homebrew THEN a
    ELSE send(a, [type |-> "CheckForUpdate"])

is_setup_mode(a) == a.setup # NoSetup

is_update_prompt_mode(a) == a.update_prompt # NoUpdatePrompt

is_input_mode(a) == a.focus = "Input"

\* a move that stops at the ends
option_move_clamped(selected, len, delta) ==
    IF len = 0 THEN 0
    ELSE IF delta < 0 THEN (IF selected = 0 THEN 0 ELSE selected - 1)
    ELSE (IF selected >= len - 1 THEN len - 1 ELSE selected + 1)

\* SetupState::move_selection and UpdatePromptState::move_selection
option_move(selected, len, delta) ==
    IF len = 0 THEN 0
    ELSE IF delta < 0 THEN (IF selected = 0 THEN len - 1 ELSE selected - 1)
    ELSE (IF selected >= len - 1 THEN 0 ELSE selected + 1)

setup_move_selection(a, delta) ==
    IF a.setup = NoSetup THEN a
    ELSE [a EXCEPT !.setup.selected = option_move(@, Len(a.setup.options), delta)]

update_move_selection(a, delta) ==
    [a EXCEPT !.update_prompt.selected =
        option_move(@, Len(UPDATE_PROMPT_OPTIONS), delta)]

\* the value set_config_value writes for the step, None when the step writes
\* nothing
saved_value(setup) ==
    LET choice == setup.options[setup.selected + 1]
    IN IF setup.step = "DefaultWorktreeName"
       THEN (IF choice.value = "cities" THEN "cities" ELSE "")
       ELSE choice.value

\* saved is whether the save_* call of the step returns Ok
apply_setup_selection(a, saved, machine) ==
    IF a.setup = NoSetup THEN a
    ELSE IF a.setup.selected >= Len(a.setup.options) THEN a
    ELSE LET step == a.setup.step
             choice == a.setup.options[a.setup.selected + 1]
             advance(a1) ==
                 start_setup_step(
                     [a1 EXCEPT !.setup_steps = IF @ = <<>> THEN @ ELSE Tail(@)], machine)
         IN CASE step = "DefaultWorktreeName" ->
                   IF ~saved
                   THEN set_error(a, "Failed to save default worktree names preference")
                   ELSE advance([a EXCEPT !.default_worktree_name_mode =
                                    IF choice.value = "cities" THEN "Cities" ELSE None])
              [] step = "Editor" ->
                   IF choice.value = None THEN advance(a)
                   ELSE IF ~saved THEN set_error(a, "Failed to save editor")
                   ELSE advance([a EXCEPT !.editor_command = choice.value])
              [] step = "Terminal" ->
                   IF choice.value = None THEN advance(a)
                   ELSE IF ~saved THEN set_error(a, "Failed to save terminal")
                   ELSE advance([a EXCEPT !.terminal_command = choice.value])

\* saved is whether save_check_updates(false) returns Ok
apply_update_selection(a, saved) ==
    IF a.update_prompt = NoUpdatePrompt THEN a
    ELSE CASE a.update_prompt.selected = 0 ->
                send([a EXCEPT !.update_prompt.running = TRUE,
                               !.update_prompt.completed = FALSE],
                     [type |-> "RunUpgrade"])
           [] a.update_prompt.selected = 1 -> [a EXCEPT !.update_prompt = NoUpdatePrompt]
           [] a.update_prompt.selected = 2 ->
                IF ~saved THEN set_error(a, "Failed to update config")
                ELSE [a EXCEPT !.update_prompt = NoUpdatePrompt]
           [] OTHER -> a

\* the keys the wizard and the update prompt tell apart
ModeKeys == {"Up", "Down", "Enter", "Esc", "Char", "CtrlC"}

\* whether handle_setup_key returns true
setup_key_quits(key) == key = "CtrlC"

handle_setup_key(a, key, saved, machine) ==
    CASE key = "CtrlC" -> a
      [] key = "Up" -> setup_move_selection(a, 0 - 1)
      [] key = "Down" -> setup_move_selection(a, 1)
      [] key = "Enter" -> apply_setup_selection(a, saved, machine)
      [] OTHER -> a

\* whether handle_update_prompt_key returns true
update_prompt_key_quits(a, key) ==
    \/ key = "CtrlC"
    \/ /\ a.update_prompt # NoUpdatePrompt
       /\ a.update_prompt.completed
       /\ key = "Enter"

\* a prompt that takes keys while the upgrade runs
handle_update_prompt_key_eager(a, key, saved) ==
    IF key = "CtrlC" THEN a
    ELSE IF a.update_prompt = NoUpdatePrompt THEN a
    ELSE IF a.update_prompt.completed THEN a
    ELSE CASE key = "Up" -> update_move_selection(a, 0 - 1)
           [] key = "Down" -> update_move_selection(a, 1)
           [] key = "Enter" -> apply_update_selection(a, saved)
           [] OTHER -> a

handle_update_prompt_key(a, key, saved) ==
    IF key = "CtrlC" THEN a
    ELSE IF a.update_prompt = NoUpdatePrompt THEN a
    ELSE IF a.update_prompt.completed THEN a
    ELSE IF a.update_prompt.running THEN a
    ELSE CASE key = "Up" -> update_move_selection(a, 0 - 1)
           [] key = "Down" -> update_move_selection(a, 1)
           [] key = "Enter" -> apply_update_selection(a, saved)
           [] OTHER -> a

\* the UpgradeResult arm
on_upgrade_result(a, event) ==
    LET a1 == IF a.update_prompt = NoUpdatePrompt THEN a
              ELSE [a EXCEPT !.update_prompt.running = FALSE,
                             !.update_prompt.completed = IF event.ok THEN TRUE ELSE @]
    IN IF event.ok
       THEN set_status(a1, "Upgrade complete. Press Enter to quit and relaunch.")
       ELSE set_error(a1, event.err)

\* a dispatch that asks the wizard first
key_target_setup_first(a) ==
    IF is_setup_mode(a) THEN "setup"
    ELSE IF is_update_prompt_mode(a) THEN "update_prompt"
    ELSE IF is_input_mode(a) THEN "input"
    ELSE "list"

\* run_app: the handler the key is given to
key_target(a) ==
    IF is_update_prompt_mode(a) THEN "update_prompt"
    ELSE IF is_setup_mode(a) THEN "setup"
    ELSE IF is_input_mode(a) THEN "input"
    ELSE "list"

----------------------------------------------------------------------------
(* app.rs: handle_worker_events, one event *)

worktree_key(repo, name) == [kind |-> "Worktree", repo |-> repo, name |-> name]

\* the Ok(data) arm
apply_all_data(a, data) ==
    LET prev_key == selected_tree_key(a)
        a1 == [a EXCEPT !.repos = data.repos,
                        !.repo_worktrees = data.repo_worktrees,
                        !.expanded_repos = {name \in @ : name \in Range(data.repos)}]
        a2 == IF a1.desired_worktree_selection # NoPair
              THEN [a1 EXCEPT !.desired_worktree_selection = NoPair,
                              !.expanded_repos =
                                  @ \cup {a1.desired_worktree_selection.repo}]
              ELSE IF a1.desired_repo_selection # None
              THEN [a1 EXCEPT !.desired_repo_selection = None]
              ELSE a1
        preferred == IF a1.desired_worktree_selection # NoPair
                     THEN worktree_key(a1.desired_worktree_selection.repo,
                                       a1.desired_worktree_selection.name)
                     ELSE IF a1.desired_repo_selection # None
                     THEN repo_key(a1.desired_repo_selection)
                     ELSE prev_key
        a3 == rebuild_tree_items(a2, preferred)
    IN IF data.error # None THEN set_error(a3, data.error) ELSE a3

\* the Err(err) arm
clear_all_data(a, err) ==
    set_error([a EXCEPT !.repos = <<>>, !.repo_worktrees = <<>>, !.tree_items = <<>>,
                        !.selected = NoSel, !.expanded_repos = {}], err)

\* a reload that shows its indicators
reload_if_needed_loud(a) ==
    IF a.needs_reload THEN request_all_data([a EXCEPT !.needs_reload = FALSE], FALSE)
    ELSE a

\* a handler that forgets the change it was told about
reload_if_needed_never(a) == a

reload_if_needed(a) ==
    IF a.needs_reload THEN request_all_data([a EXCEPT !.needs_reload = FALSE], TRUE)
    ELSE a

\* a handler without the check of the id
on_all_data_loaded_unchecked(a, event) ==
    LET a1 == clear_loading(clear_loading([a EXCEPT !.pending_all_request = NoId],
                                          "Repos"), "Worktrees")
        a2 == IF event.ok THEN apply_all_data(a1, event.data)
              ELSE clear_all_data(a1, event.err)
    IN reload_if_needed(a2)

\* a handler that takes the result of any request not newer than the pending one
on_all_data_loaded_older(a, event) ==
    IF a.pending_all_request = NoId \/ event.request_id > a.pending_all_request THEN a
    ELSE on_all_data_loaded_unchecked(a, event)

on_all_data_loaded(a, event) ==
    IF a.pending_all_request # event.request_id THEN a
    ELSE LET a1 == clear_loading(clear_loading([a EXCEPT !.pending_all_request = NoId],
                                               "Repos"), "Worktrees")
             a2 == IF event.ok THEN apply_all_data(a1, event.data)
                   ELSE clear_all_data(a1, event.err)
         IN reload_if_needed(a2)

\* a handler that reloads at every change
on_fs_changed_eager(a) == request_all_data(a, TRUE)

on_fs_changed(a) ==
    IF a.pending_all_request # NoId THEN [a EXCEPT !.needs_reload = TRUE]
    ELSE request_all_data(a, TRUE)

on_env_info_loaded(a) == clear_loading(a, "EnvInfo")

\* a failure that also starts a reload, as the successes do
action_failed_reloading(a, err) ==
    request_all_data(set_error(clear_loading(a, "Action"), err), FALSE)

action_failed(a, err) == set_error(clear_loading(a, "Action"), err)

on_checkout_repo_result(a, event) ==
    IF event.ok
    THEN request_all_data(
            [set_status(clear_loading(a, "Action"), "Checked out")
                EXCEPT !.desired_repo_selection = event.repo], FALSE)
    ELSE action_failed(a, event.err)

on_create_worktree_result(a, event) ==
    IF event.ok
    THEN LET worktree_name == display_name(event.worktree)
             selection_key == IF event.worktree.branch # NoBranch
                              THEN event.worktree.branch ELSE worktree_name
         IN request_all_data(
               [set_status(clear_loading(a, "Action"), "Created worktree")
                   EXCEPT !.desired_worktree_selection =
                       [repo |-> event.repo_name, name |-> selection_key]], FALSE)
    ELSE action_failed(a, event.err)

on_delete_repo_result(a, event) ==
    IF event.ok
    THEN request_all_data(set_status(clear_loading(a, "Action"), "Deleted repo"), FALSE)
    ELSE action_failed(a, event.err)

on_delete_worktree_result(a, event) ==
    IF event.ok
    THEN request_all_data(set_status(clear_loading(a, "Action"), "Deleted worktree"),
                          FALSE)
    ELSE action_failed(a, event.err)

handle_worker_event(a, event) ==
    CASE event.type = "AllDataLoaded" -> on_all_data_loaded(a, event)
      [] event.type = "FsChanged" -> on_fs_changed(a)
      [] event.type = "EnvInfoLoaded" -> on_env_info_loaded(a)
      [] event.type = "CheckoutRepoResult" -> on_checkout_repo_result(a, event)
      [] event.type = "CreateWorktreeResult" -> on_create_worktree_result(a, event)
      [] event.type = "DeleteRepoResult" -> on_delete_repo_result(a, event)
      [] event.type = "DeleteWorktreeResult" -> on_delete_worktree_result(a, event)
      [] event.type = "UpgradeResult" -> on_upgrade_result(a, event)
      [] event.type = "UpdateCheckResult" -> a

----------------------------------------------------------------------------
(* worker.rs: load_all_data and the worker's answers *)

\* what build_worktree_entries can return for a repo
ListingOutcomes(name) ==
    {[ok |-> TRUE, entries |-> l] : l \in WtLists(name)}
    \cup (IF name = "r1" THEN {[ok |-> FALSE, entries |-> <<>>]} ELSE {})

\* repos is what list_repos returned, ordered by modification time (so in any
\* order of the names); outcome is what build_worktree_entries returned for each
\* a scan that does not record the failure of a listing
load_all_data_silent(repos, outcome) ==
    [repos |-> repos,
     repo_worktrees |-> [name \in Range(repos) |->
                            IF outcome[name].ok THEN outcome[name].entries ELSE <<>>],
     error |-> None]

load_all_data(repos, outcome) ==
    [repos |-> repos,
     repo_worktrees |-> [name \in Range(repos) |->
                            IF outcome[name].ok THEN outcome[name].entries ELSE <<>>],
     error |-> IF \E name \in Range(repos) : ~outcome[name].ok
               THEN "list worktrees failed" ELSE None]

\* the scans of the sessions the model runs
Scans ==
    {load_all_data(repos, outcome) :
        repos \in RepoSeqs,
        outcome \in {f \in [RepoNames -> UNION {ListingOutcomes(n) : n \in RepoNames}] :
                        \A n \in RepoNames : f[n] \in ListingOutcomes(n)}}

\* the scans of a session in which r1 is the only repo ever cloned
SmallScans == {data \in Scans : Range(data.repos) \subseteq {"r1"}}

\* a worker that answers every LoadAll with the id 0
all_data_loaded_unnumbered(request_id, scans) ==
    {[type |-> "AllDataLoaded", request_id |-> 0, ok |-> TRUE, data |-> data] :
        data \in scans}
    \cup {[type |-> "AllDataLoaded", request_id |-> 0, ok |-> FALSE,
           err |-> "list repos failed"]}

\* the LoadAll arm: load_all_data() returns one of the scans or fails
all_data_loaded(request_id, scans) ==
    {[type |-> "AllDataLoaded", request_id |-> request_id, ok |-> TRUE, data |-> data] :
        data \in scans}
    \cup {[type |-> "AllDataLoaded", request_id |-> request_id, ok |-> FALSE,
           err |-> "list repos failed"]}

\* the events one request can be answered with: one match arm of spawn_worker
\* each, over the outcomes of the collaborator call
worker_events(request, scans) ==
    CASE request.type = "LoadEnvInfo" -> {[type |-> "EnvInfoLoaded"]}
      [] request.type = "CheckForUpdate" ->
           {[type |-> "UpdateCheckResult", latest |-> latest] : latest \in {None, "newer"}}
      [] request.type = "RunUpgrade" ->
           {[type |-> "UpgradeResult", ok |-> TRUE],
            [type |-> "UpgradeResult", ok |-> FALSE, err |-> "Upgrade failed"]}
      [] request.type = "LoadAll" -> all_data_loaded(request.request_id, scans)
      [] request.type = "CheckoutRepo" ->
           {[type |-> "CheckoutRepoResult", ok |-> TRUE, repo |-> name] :
               name \in RepoNames}
           \cup {[type |-> "CheckoutRepoResult", ok |-> FALSE, err |-> "checkout failed"]}
      [] request.type = "CreateWorktree" ->
           {[type |-> "CreateWorktreeResult", repo_name |-> request.repo, ok |-> TRUE,
             worktree |-> [path |-> trim(request.name), branch |-> trim(request.branch)]],
            [type |-> "CreateWorktreeResult", repo_name |-> request.repo, ok |-> FALSE,
             err |-> "create worktree failed"]}
      [] request.type = "DeleteRepo" ->
           {[type |-> "DeleteRepoResult", name |-> request.name, ok |-> TRUE],
            [type |-> "DeleteRepoResult", name |-> request.name, ok |-> FALSE,
             err |-> "delete repo failed"]}
      [] request.type = "DeleteWorktree" ->
           {[type |-> "DeleteWorktreeResult", repo_name |-> request.repo,
             worktree_name |-> request.name, ok |-> TRUE],
            [type |-> "DeleteWorktreeResult", repo_name |-> request.repo,
             worktree_name |-> request.name, ok |-> FALSE,
             err |-> "delete worktree failed"]}

----------------------------------------------------------------------------
(* The state machine *)

\* ui_git is the repo in which the step just taken ran git on the UI thread
NoGit == None

\* what the restore file can hold: load_restore_state
RestoreStates ==
    {[expanded_repos |-> e, selected_repo |-> r, selected_worktree |-> w] :
        e \in SUBSET RepoNames, r \in RepoNames \cup {None},
        w \in {NoPair} \cup [repo : RepoNames, name : WtNames]}

\* RestoreState::default(): no restore file
NoRestore == [expanded_repos |-> {}, selected_repo |-> None, selected_worktree |-> NoPair]

apply_restore_state(a, state) ==
    [a EXCEPT !.expanded_repos = state.expanded_repos,
              !.desired_worktree_selection = state.selected_worktree,
              !.desired_repo_selection =
                  IF state.selected_worktree = NoPair THEN state.selected_repo ELSE None]

\* App::new before the calls that follow the struct literal
new_app ==
    [repos |-> <<>>, tree_items |-> <<>>, selected |-> NoSel, repo_worktrees |-> <<>>,
     expanded_repos |-> {}, focus |-> "List", input |-> NoInput, status |-> NoStatus,
     loading |-> <<>>, worker_tx |-> <<>>, worker_rx |-> <<>>, request_seq |-> 0,
     pending_all_request |-> NoId, needs_reload |-> FALSE,
     desired_repo_selection |-> None, desired_worktree_selection |-> NoPair,
     editor_command |-> None, terminal_command |-> None,
     default_worktree_name_mode |-> None,
     setup |-> NoSetup, setup_steps |-> <<>>, update_prompt |-> NoUpdatePrompt]

\* a config that answers every question of the wizard and turns the update
\* check off
Configured ==
    [default_worktree_name_set |-> TRUE, default_worktree_name |-> None,
     editor |-> "zed", terminal |-> "Terminal", check_updates |-> FALSE,
     known_latest_version |-> None, force_upgrade_prompt |-> FALSE]

\* load_config() of a config file that was never written
NoConfig ==
    [default_worktree_name_set |-> FALSE, default_worktree_name |-> None,
     editor |-> None, terminal |-> None, check_updates |-> TRUE,
     known_latest_version |-> None, force_upgrade_prompt |-> FALSE]

\* a machine with no editor found and not installed with Homebrew
PlainMachine ==
    [editor |-> <<[label |-> "Configure later", value |-> None]>>,
     terminal |-> <<[label |-> "Terminal.app", value |-> "Terminal"]>>,
     homebrew |-> FALSE]

\* a configured bbq with no restore file and no repo cloned; repos_root is
\* the set of the directories under repos_root(), each a bare repo, and
\* worktrees the set of the worktrees checked out under worktrees_root()
EmptyDisk ==
    [restore |-> NoRestore, config |-> Configured, machine |-> PlainMachine,
     repos_root |-> {}, worktrees |-> {}]

\* App::new over the files of the disk
App_new(d) ==
    LET a0 == [new_app EXCEPT !.editor_command = d.config.editor,
                              !.terminal_command = d.config.terminal,
                              !.default_worktree_name_mode = d.config.default_worktree_name]
        a1 == init_update_prompt(a0, d.config, d.machine)
        a2 == init_setup_state(a1, d.config, d.machine)
        a3 == apply_restore_state(a2, d.restore)
        a4 == request_env_info(a3)
        a5 == request_update_check(a4, d.config, d.machine)
    IN request_all_data(a5, FALSE)

\* persist_restore_state: the RestoreState it saves.  save_restore_state
\* escapes backslashes and quotes and parse_restore trims quotes and splits
\* the list at commas; the names of the model hold none of the three, so the
\* file gives back the names it was given
persist_restore_state(a) ==
    LET key == selected_tree_key(a)
    IN [expanded_repos |-> a.expanded_repos,
        selected_repo |-> IF key # NoKey /\ key.kind = "Repo" THEN key.repo ELSE None,
        selected_worktree |->
            IF key # NoKey /\ key.kind = "Worktree"
            THEN [repo |-> key.repo, name |-> key.name] ELSE NoPair]

\* the clock starts at 0; the watcher starts with last_event five seconds back
InitEnv ==
    /\ now = 0
    /\ ui = "run_app"
    /\ last_event = 0 - 5000
    /\ watch_rx = <<>>
    /\ disk = EmptyDisk

Init ==
    /\ InitEnv
    /\ app = request_all_data(request_env_info(apply_restore_state(new_app, NoRestore)),
                              FALSE)
    /\ worker = NoRequest
    /\ ui_git = NoGit
    /\ prompts_opened = 0

\* 1 when the step of the UI thread opens a prompt, else 0
opened_in(a) == IF app.input = NoInput /\ a.input # NoInput THEN 1 ELSE 0

\* the model's bounds on what a step of the UI thread may leave behind
WithinBounds(a) ==
    /\ a.request_seq <= MaxSeq
    /\ Len(a.worker_tx) <= MaxQueue
    /\ prompts_opened + opened_in(a) <= MaxPrompts
    /\ prompts_opened' = prompts_opened + opened_in(a)

\* where the UI thread is after the step: a key read by the poll ends the
\* iteration of the loop; sessions that leave the order of an iteration open
\* keep ui at "run_app"
after_step == IF ui = "poll" THEN "update_status" ELSE ui

\* a step of the UI thread that runs no git command
Ui(a) ==
    /\ WithinBounds(a)
    /\ app' = a
    /\ ui_git' = NoGit
    /\ ui' = after_step
    /\ UNCHANGED <<now, last_event, watch_rx, disk>>
    /\ UNCHANGED worker

\* a step of the UI thread that runs git in the repo (default_source_branch)
UiWithGit(a, repo) ==
    /\ WithinBounds(a)
    /\ app' = a
    /\ ui_git' = repo
    /\ ui' = after_step
    /\ UNCHANGED <<now, last_event, watch_rx, disk>>
    /\ UNCHANGED worker

\* run_app: handle_worker_events takes the next event of the channel
HandleWorkerEvent ==
    /\ app.worker_rx # <<>>
    /\ Ui(handle_worker_event([app EXCEPT !.worker_rx = Tail(@)], Head(app.worker_rx)))

\* run_app sends a key to handle_key only when the focus is List
KeyUp == app.focus = "List" /\ Ui(move_selection(app, 0 - 1))

KeyDown == app.focus = "List" /\ Ui(move_selection(app, 1))

KeyLeft == app.focus = "List" /\ Ui(collapse_selected(app))

KeyRight == app.focus = "List" /\ Ui(expand_selected(app))

\* open_selected_in_editor and open_selected_in_terminal: the launcher
\* succeeds or fails
open_selected(a, ok) ==
    IF ~has_selected_worktree(a) THEN set_error(a, "Select a worktree first")
    ELSE IF ok THEN set_status(a, "Opened") ELSE set_error(a, "Failed to open")

KeyEnter ==
    /\ app.focus = "List"
    /\ IF has_selected_worktree(app)
       THEN \E ok \in BOOLEAN : Ui(open_selected(app, ok))
       ELSE Ui(toggle_selected_repo(app))

KeySpace == app.focus = "List" /\ Ui(toggle_selected_repo(app))

KeyT == app.focus = "List" /\ \E ok \in BOOLEAN : Ui(open_selected(app, ok))

KeyEsc == app.focus = "List" /\ Ui(clear_status(app))

KeyC == app.focus = "List" /\ Ui(open_checkout_prompt(app))

KeyN ==
    /\ app.focus = "List"
    /\ IF selected_repo(app) = None THEN Ui(open_worktree_prompt(app, <<>>))
       ELSE \E default_name \in suggest_worktree_name(app, selected_repo(app)) :
               UiWithGit(open_worktree_prompt(app, default_name), selected_repo(app))

KeyD == app.focus = "List" /\ Ui(open_delete_prompt(app))

\* what default_source_branch can return: the repo's default branch, or
\* DEFAULT_SOURCE_BRANCH when git reports none
DefaultSourceBranches == {DEFAULT_SOURCE_BRANCH, <<"y">>}

\* run_app sends a key to handle_input when the focus is Input
InputEnter ==
    /\ app.focus = "Input"
    /\ IF submit_runs_git(app.input)
       THEN \E default_source \in DefaultSourceBranches :
               UiWithGit(handle_input_enter(app, default_source), app.input.repo)
       ELSE Ui(handle_input_enter(app, DEFAULT_SOURCE_BRANCH))

InputEsc == app.focus = "Input" /\ Ui(handle_input_esc(app))

InputBackspace == app.focus = "Input" /\ Ui(handle_input_backspace(app))

InputChar ==
    /\ app.focus = "Input"
    /\ Len(app.input.buffer) < MaxBuf
    /\ \E ch \in Chars : Ui(handle_input_char(app, ch))

\* spawn_worker: the loop takes the next request of the channel
WorkerTake ==
    /\ worker = NoRequest
    /\ app.worker_tx # <<>>
    /\ worker' = Head(app.worker_tx)
    /\ app' = [app EXCEPT !.worker_tx = Tail(@)]
    /\ ui_git' = NoGit
    /\ UNCHANGED env
    /\ UNCHANGED prompts_opened

\* spawn_worker: the request is done and its event is sent
WorkerFinishWith(scans) ==
    /\ worker # NoRequest
    /\ Len(app.worker_rx) < MaxQueue
    /\ \E event \in worker_events(worker, scans) :
          app' = [app EXCEPT !.worker_rx = Append(@, event)]
    /\ worker' = NoRequest
    /\ ui_git' = NoGit
    /\ UNCHANGED env
    /\ UNCHANGED prompts_opened

WorkerFinish == WorkerFinishWith(SmallScans)

WorkerFinishBrowse == WorkerFinishWith(Scans)

\* spawn_filesystem_watcher: a relevant change outside the debounce window
WatcherEmit ==
    /\ Len(app.worker_rx) < MaxQueue
    /\ app' = [app EXCEPT !.worker_rx = Append(@, [type |-> "FsChanged"])]
    /\ ui_git' = NoGit
    /\ UNCHANGED env
    /\ UNCHANGED <<worker, prompts_opened>>

Next ==
    \/ HandleWorkerEvent
    \/ KeyUp
    \/ KeyDown
    \/ KeyLeft
    \/ KeyRight
    \/ KeyEnter
    \/ KeySpace
    \/ KeyT
    \/ KeyEsc
    \/ KeyC
    \/ KeyN
    \/ KeyD
    \/ InputEnter
    \/ InputEsc
    \/ InputBackspace
    \/ InputChar
    \/ WorkerTake
    \/ WorkerFinish
    \/ WatcherEmit

\* the whole engine: every key, in a session with one repo
Spec == Init /\ [][Next]_vars

\* a session of browsing: no prompt is opened, two repos
NextBrowse ==
    \/ HandleWorkerEvent
    \/ KeyUp
    \/ KeyDown
    \/ KeyLeft
    \/ KeyRight
    \/ KeyEnter
    \/ KeySpace
    \/ KeyT
    \/ KeyEsc
    \/ WorkerTake
    \/ WorkerFinishBrowse
    \/ WatcherEmit

SpecBrowse == Init /\ [][NextBrowse]_vars

----------------------------------------------------------------------------
(* The App under any order of delivery.  The channel of the program delivers
   the events in the order the worker sent them; here handle_worker_events is
   given the events in flight in any order, which adds behaviours to those of
   the program and removes none. *)

\* the sequence without its i-th element
RemoveAt(s, i) == SubSeq(s, 1, i - 1) \o SubSeq(s, i + 1, Len(s))

HandleAnyWorkerEvent ==
    \E i \in DOMAIN app.worker_rx :
        Ui(handle_worker_event([app EXCEPT !.worker_rx = RemoveAt(@, i)],
                               app.worker_rx[i]))

WorkerFinishAhead ==
    /\ worker # NoRequest
    /\ Len(app.worker_rx) < MaxInFlight
    /\ \E event \in worker_events(worker, SmallScans) :
          app' = [app EXCEPT !.worker_rx = Append(@, event)]
    /\ worker' = NoRequest
    /\ ui_git' = NoGit
    /\ UNCHANGED env
    /\ UNCHANGED prompts_opened

NextAnyOrder ==
    \/ HandleAnyWorkerEvent
    \/ KeyC
    \/ InputChar
    \/ InputEnter
    \/ WorkerTake
    \/ WorkerFinishAhead
    \/ WatcherEmit

SpecAnyOrder == Init /\ [][NextAnyOrder]_vars

----------------------------------------------------------------------------
(* rebuild_tree_items as a function: any loaded data, any expanded set, any
   previous selection, any preferred key *)

TreeKeys ==
    {repo_key(name) : name \in RepoNames}
    \cup {worktree_key(repo, name) : repo \in RepoNames, name \in WtNames}

\* the Apps rebuild_tree_items can be called on: r1 has any list of worktrees
TreeApps ==
    {[new_app EXCEPT !.repos = repos,
                     !.repo_worktrees =
                         [name \in Range(repos) |-> IF name = "r1" THEN l ELSE <<>>],
                     !.expanded_repos = expanded,
                     !.selected = selected] :
        repos \in RepoSeqs, l \in AllWtLists,
        expanded \in SUBSET RepoNames, selected \in NoSel .. MaxWorktrees}

InitTree ==
    /\ InitEnv
    /\ app \in TreeApps
    /\ worker = NoRequest
    /\ ui_git = NoGit
    /\ prompts_opened = 0

Rebuild ==
    /\ \E preferred \in TreeKeys \cup {NoKey} : app' = rebuild_tree_items(app, preferred)
    /\ UNCHANGED <<worker, ui_git, prompts_opened>>
    /\ UNCHANGED env

SpecTree == InitTree /\ [][Rebuild]_vars

----------------------------------------------------------------------------
(* Sessions about prompts: the first scan has been applied and found r1 with a
   clean worktree and one with a changed file; the user opens one prompt and
   types over a larger alphabet; nothing else changes the directories, so the
   watcher is silent *)

PromptChars == {"y", "d", " ", "/"}

\* directory b on branch y with one changed file
EntryDirty == [worktree |-> [path |-> <<"b">>, branch |-> <<"y">>], changed_files |-> 1]

\* the scans of these sessions: the changed file is there, or has been reverted
PromptScans ==
    {[repos |-> <<"r1">>, repo_worktrees |-> [name \in {"r1"} |-> l], error |-> None] :
        l \in {<<EntryA, EntryDirty>>, <<EntryA, EntryB>>}}

\* the App once the worker has answered the two requests of App::new and
\* handle_worker_events has processed the answers
LoadedApp(data) ==
    LET started == request_all_data(
                       request_env_info(apply_restore_state(new_app, NoRestore)), FALSE)
        a0 == [started EXCEPT !.worker_tx = <<>>]
        a1 == handle_worker_event(a0, [type |-> "EnvInfoLoaded"])
    IN handle_worker_event(a1, [type |-> "AllDataLoaded", request_id |-> a0.request_seq,
                                ok |-> TRUE, data |-> data])

InitPrompt ==
    /\ InitEnv
    /\ app \in {LoadedApp(data) : data \in PromptScans}
    /\ worker = NoRequest
    /\ ui_git = NoGit
    /\ prompts_opened = 0

InputCharPrompt ==
    /\ app.focus = "Input"
    /\ Len(app.input.buffer) < MaxTyped
    /\ \E ch \in PromptChars : Ui(handle_input_char(app, ch))

WorkerFinishPrompt == WorkerFinishWith(PromptScans)

NextPrompt ==
    \/ HandleWorkerEvent
    \/ KeyDown
    \/ KeyRight
    \/ KeyC
    \/ KeyN
    \/ KeyD
    \/ InputEnter
    \/ InputEsc
    \/ InputBackspace
    \/ InputCharPrompt
    \/ WorkerTake
    \/ WorkerFinishPrompt

SpecPrompt == InitPrompt /\ [][NextPrompt]_vars

----------------------------------------------------------------------------
(* delete_confirmed and discard_confirmed as functions: a confirmation prompt
   holding any buffer, and Enter *)

ConfirmChars == {"y", "Y", "e", "s", "d", "D", "i", "n", " "}

ConfirmInputs ==
    SeqsUpTo(ConfirmChars, MaxConfirm)
    \cup {<<"d", "i", "s", "c", "a", "r", "d">>, <<"D", "I", "S", "C", "A", "R", "D">>,
          <<"d", "i", "s", "c", "a", "r", "d", "s">>, <<" ", "d", "i", "s", "c", " ">>,
          <<"y", "e", "s", "s">>, <<" ", "Y", "E", "S", " ">>}

InitConfirm ==
    /\ InitEnv
    /\ \E data \in PromptScans, kind \in {"DeleteRepo", "DeleteWorktreeForce"},
          buffer \in ConfirmInputs :
          app = [LoadedApp(data) EXCEPT
                    !.focus = "Input",
                    !.input = prompt(kind, "r1",
                                     IF kind = "DeleteRepo" THEN NoName ELSE <<"b">>,
                                     NoBranch, buffer, "List")]
    /\ worker = NoRequest
    /\ ui_git = NoGit
    /\ prompts_opened = MaxPrompts

SpecConfirm == InitConfirm /\ [][InputEnter]_vars

\* sessions in which a clone is under way: the scans find r1 alone, or r1 and
\* the cloned r2 next to it
CloneScans ==
    {[repos |-> repos,
      repo_worktrees |-> [name \in Range(repos) |->
                             IF name = "r1" THEN <<EntryA, EntryDirty>> ELSE <<>>],
      error |-> None] : repos \in {<<"r1">>, <<"r1", "r2">>, <<"r2", "r1">>}}

\* the App with r1 loaded, the clone prompt open and a url typed into it
InitClone ==
    /\ InitEnv
    /\ app = handle_input_char(open_checkout_prompt(
                 LoadedApp([repos |-> <<"r1">>,
                            repo_worktrees |-> [name \in {"r1"} |-> <<EntryA, EntryDirty>>],
                            error |-> None])), "y")
    /\ worker = NoRequest
    /\ ui_git = NoGit
    /\ prompts_opened = 0

WorkerFinishClone == WorkerFinishWith(CloneScans)

NextClone ==
    \/ HandleWorkerEvent
    \/ KeyDown
    \/ KeyRight
    \/ KeyN
    \/ KeyD
    \/ InputEnter
    \/ InputEsc
    \/ InputCharPrompt
    \/ WorkerTake
    \/ WorkerFinishClone

SpecClone == InitClone /\ [][NextClone]_vars

\* what build_worktree_entries can return for each of the enumerated repos
\* when the listing of any of them can fail
ScanOutcomes(repos) ==
    {f \in [Range(repos) -> UNION {ListingOutcomes(n) : n \in RepoNames}
                               \cup {[ok |-> FALSE, entries |-> <<>>]}] :
        \A n \in Range(repos) :
            f[n] \in ListingOutcomes(n) \cup {[ok |-> FALSE, entries |-> <<>>]}}

\* load_all_data: list_repos() has returned repos and the loop has called
\* build_worktree_entries for each of them
WorkerList ==
    /\ worker.type = "LoadAll"
    /\ \E repos \in RepoSeqs :
          \E outcome \in ScanOutcomes(repos) :
             worker' = [type |-> "LoadAllListed", request_id |-> worker.request_id,
                        repos |-> repos, outcome |-> outcome]
    /\ ui_git' = NoGit
    /\ UNCHANGED env
    /\ UNCHANGED <<app, prompts_opened>>

\* load_all_data returns Ok and the LoadAll arm sends the event
WorkerListed ==
    /\ worker.type = "LoadAllListed"
    /\ Len(app.worker_rx) < MaxQueue
    /\ app' = [app EXCEPT !.worker_rx =
                  Append(@, [type |-> "AllDataLoaded", request_id |-> worker.request_id,
                             ok |-> TRUE,
                             data |-> load_all_data(worker.repos, worker.outcome)])]
    /\ worker' = NoRequest
    /\ ui_git' = NoGit
    /\ UNCHANGED env
    /\ UNCHANGED prompts_opened

\* LoadEnvInfo is answered; list_repos() fails and LoadAll is answered with Err
WorkerFinishScan ==
    /\ worker.type \in {"LoadEnvInfo", "LoadAll"}
    /\ WorkerFinishWith({})

NextScan ==
    \/ HandleWorkerEvent
    \/ KeyDown
    \/ KeyRight
    \/ WorkerTake
    \/ WorkerList
    \/ WorkerListed
    \/ WorkerFinishScan
    \/ WatcherEmit

\* a session of browsing in which the steps of a scan are told apart
SpecScan == Init /\ [][NextScan]_vars

----------------------------------------------------------------------------
(* The loading indicators on their own: every group is set, with either
   priority, and cleared at any time *)

LoadingGroups == {"EnvInfo", "Repos", "Worktrees", "Action"}

\* time passes: one of the delays, up to the horizon
Pass(delays, horizon) ==
    /\ \E d \in delays : now + d <= horizon /\ now' = now + d
    /\ UNCHANGED <<app, worker, ui_git, prompts_opened, ui, last_event, watch_rx, disk>>

PassLoading == Pass({1}, MaxStarted)

InitLoading ==
    /\ InitEnv
    /\ app = new_app
    /\ worker = NoRequest
    /\ ui_git = NoGit
    /\ prompts_opened = 0

SetLoading ==
    \E group \in LoadingGroups, message \in {"", "Loading repos"},
       priority \in {"Background", "Action"} :
       Ui(set_loading(app, group, message, priority))

ClearLoading == \E group \in LoadingGroups : Ui(clear_loading(app, group))

NextLoading == SetLoading \/ ClearLoading \/ PassLoading

SpecLoading == InitLoading /\ [][NextLoading]_vars

----------------------------------------------------------------------------
(* mod.rs: the iterations of run_app in their order, with the clock.  The
   user opens the clone prompt and submits it empty; a scan finds r1, or
   finds it and reports the long stderr of a failed listing *)

RECURSIVE Repeated(_, _)
Repeated(text, n) == IF n = 0 THEN "" ELSE text \o Repeated(text, n - 1)

\* git command failed: ... with its stderr, 210 characters
LongError == Repeated("fatal: not a git repository (or any of the parent directories", 3)
                \o Repeated(".", 27)

TickScans ==
    {[repos |-> <<"r1">>, repo_worktrees |-> [name \in {"r1"} |-> <<EntryB>>],
      error |-> error] : error \in {None, LongError}}

InitTick ==
    /\ now = 0
    /\ ui = "update_status"
    /\ last_event = 0 - 5000
    /\ watch_rx = <<>>
    /\ disk = EmptyDisk
    /\ app = request_all_data(request_env_info(apply_restore_state(new_app, NoRestore)),
                              FALSE)
    /\ worker = NoRequest
    /\ ui_git = NoGit
    /\ prompts_opened = 0

\* app.update_status()
UpdateStatus ==
    /\ ui = "update_status"
    /\ app' = update_status(app)
    /\ ui' = "handle_worker_events"
    /\ ui_git' = NoGit
    /\ UNCHANGED <<worker, prompts_opened, now, last_event, watch_rx, disk>>

\* app.handle_worker_events(): the next event of the channel
TickHandleWorkerEvent == ui = "handle_worker_events" /\ HandleWorkerEvent

\* try_recv finds the channel empty; terminal.draw
Draw ==
    /\ ui = "handle_worker_events"
    /\ app.worker_rx = <<>>
    /\ ui' = "poll"
    /\ ui_git' = NoGit
    /\ UNCHANGED <<app, worker, prompts_opened, now, last_event, watch_rx, disk>>

\* event::poll returns false after its 200 ms
PollTimeout ==
    /\ ui = "poll"
    /\ ui' = "update_status"
    /\ ui_git' = NoGit
    /\ UNCHANGED <<app, worker, prompts_opened, now, last_event, watch_rx, disk>>

\* event::poll returns true and the key is handled
PollKey == ui = "poll" /\ (KeyEsc \/ KeyC \/ InputEnter)

PassTick == Pass({2480, 5520}, MaxClock)

WorkerFinishTick == WorkerFinishWith(TickScans)

NextTick ==
    \/ UpdateStatus
    \/ TickHandleWorkerEvent
    \/ Draw
    \/ PollTimeout
    \/ PollKey
    \/ PassTick
    \/ WorkerTake
    \/ WorkerFinishTick
    \/ WatcherEmit

SpecTick == InitTick /\ [][NextTick]_vars

----------------------------------------------------------------------------
(* mod.rs and app.rs: sessions that start with questions to ask.  App::new
   reads the config and what the machine offers; run_app gives each key to
   the update prompt, the wizard, the input prompt or the list *)

Configs ==
    {[default_worktree_name_set |-> named, default_worktree_name |-> None,
      editor |-> editor, terminal |-> terminal, check_updates |-> check,
      known_latest_version |-> latest, force_upgrade_prompt |-> FALSE] :
        named \in BOOLEAN, editor \in {None, "zed"}, terminal \in {None, "Terminal"},
        check \in BOOLEAN, latest \in {None, "newer"}}

ModesScans == {data \in TickScans : data.error = None}

InitModes ==
    /\ now = 0
    /\ ui = "run_app"
    /\ last_event = 0 - 5000
    /\ watch_rx = <<>>
    /\ \E config \in Configs, machine \in Machines :
          disk = [restore |-> NoRestore, config |-> config, machine |-> machine,
                  repos_root |-> {}, worktrees |-> {}]
    /\ app = App_new(disk)
    /\ worker = NoRequest
    /\ ui_git = NoGit
    /\ prompts_opened = 0

\* a step of the UI thread that leaves the disk as d
UiSaving(a, d) ==
    /\ WithinBounds(a)
    /\ app' = a
    /\ ui_git' = NoGit
    /\ ui' = after_step
    /\ disk' = d
    /\ UNCHANGED <<now, last_event, watch_rx, worker>>

\* run_app returns: persist_restore_state, and the loop is left
Quit ==
    /\ ui' = "done"
    /\ \E saved \in BOOLEAN :
          disk' = IF saved THEN [disk EXCEPT !.restore = persist_restore_state(app)]
                  ELSE disk
    /\ ui_git' = NoGit
    /\ UNCHANGED <<app, worker, prompts_opened, now, last_event, watch_rx>>

\* set_config_value(key, value)
set_config_value(d, key, value) == [d EXCEPT !.config[key] = value]

\* the disk after the save_* call of the step in front has returned Ok
disk_after_setup(a, d) ==
    LET value == saved_value(a.setup)
    IN CASE a.setup.step = "DefaultWorktreeName" ->
              [d EXCEPT !.config.default_worktree_name_set = TRUE,
                        !.config.default_worktree_name =
                            IF value = "cities" THEN "Cities" ELSE None]
         [] a.setup.step = "Editor" ->
              IF value = None THEN d ELSE set_config_value(d, "editor", value)
         [] a.setup.step = "Terminal" ->
              IF value = None THEN d ELSE set_config_value(d, "terminal", value)

\* the key goes to handle_update_prompt_key
UpdatePromptKey ==
    /\ ui = "run_app"
    /\ key_target(app) = "update_prompt"
    /\ \E key \in ModeKeys, saved \in BOOLEAN :
          IF update_prompt_key_quits(app, key) THEN Quit
          ELSE UiSaving(handle_update_prompt_key(app, key, saved),
                        IF /\ key = "Enter"
                           /\ ~app.update_prompt.running
                           /\ app.update_prompt.selected = 2
                           /\ saved
                        THEN set_config_value(disk, "check_updates", FALSE)
                        ELSE disk)

\* the key goes to handle_setup_key
SetupKey ==
    /\ ui = "run_app"
    /\ key_target(app) = "setup"
    /\ \E key \in ModeKeys, saved \in BOOLEAN :
          IF setup_key_quits(key) THEN Quit
          ELSE UiSaving(handle_setup_key(app, key, saved, disk.machine),
                        IF key = "Enter" /\ saved THEN disk_after_setup(app, disk)
                        ELSE disk)

\* the key goes to handle_input
InputKey ==
    /\ ui = "run_app"
    /\ key_target(app) = "input"
    /\ (InputEnter \/ InputEsc \/ InputChar)

\* the key goes to handle_key; Ctrl-C makes it return true
ListKey ==
    /\ ui = "run_app"
    /\ key_target(app) = "list"
    /\ (KeyDown \/ KeyRight \/ KeyN \/ KeyEsc \/ Quit)

\* handle_worker_events: the UpdateCheckResult arm saves a newer version it
\* did not know; the save may fail
ModesHandleWorkerEvent ==
    /\ ui = "run_app"
    /\ app.worker_rx # <<>>
    /\ LET event == Head(app.worker_rx)
           a == handle_worker_event([app EXCEPT !.worker_rx = Tail(@)], event)
       IN IF /\ event.type = "UpdateCheckResult"
             /\ event.latest # None
             /\ is_newer_version(event.latest)
             /\ disk.config.known_latest_version # event.latest
          THEN \E saved \in BOOLEAN :
                  UiSaving(a, IF saved
                              THEN set_config_value(disk, "known_latest_version",
                                                    event.latest)
                              ELSE disk)
          ELSE Ui(a)

WorkerFinishModes == WorkerFinishWith(ModesScans)

NextModes ==
    \/ UpdatePromptKey
    \/ SetupKey
    \/ InputKey
    \/ ListKey
    \/ ModesHandleWorkerEvent
    \/ WorkerTake
    \/ WorkerFinishModes

SpecModes == InitModes /\ [][NextModes]_vars

----------------------------------------------------------------------------
(* mod.rs and app.rs: one session after another over the same directories.
   Every scan finds r1 with the worktrees y (on branch b) and b (on branch y),
   and r2 with none; the user browses, quits with Ctrl-C and starts bbq
   again *)

RestoreScans ==
    {[repos |-> <<"r1", "r2">>,
      repo_worktrees |-> [name \in {"r1", "r2"} |->
                             IF name = "r1" THEN <<EntryA, EntryB>> ELSE <<>>],
      error |-> None]}

InitRestore ==
    /\ InitEnv
    /\ app = App_new(disk)
    /\ worker = NoRequest
    /\ ui_git = NoGit
    /\ prompts_opened = 0

\* the keys of the session, all to handle_key; Ctrl-C ends run_app
RestoreKey ==
    /\ ui = "run_app"
    /\ (KeyDown \/ KeyLeft \/ KeyRight \/ Quit)

RestoreHandleWorkerEvent == ui = "run_app" /\ HandleWorkerEvent

\* bbq is started again: a new App, a new worker thread
Relaunch ==
    /\ ui = "done"
    /\ ui' = "run_app"
    /\ app' = App_new(disk)
    /\ worker' = NoRequest
    /\ ui_git' = NoGit
    /\ UNCHANGED <<prompts_opened, now, last_event, watch_rx, disk>>

WorkerFinishRestore == ui = "run_app" /\ WorkerFinishWith(RestoreScans)

NextRestore ==
    \/ RestoreKey
    \/ RestoreHandleWorkerEvent
    \/ Relaunch
    \/ WorkerTake
    \/ WorkerFinishRestore

SpecRestore == InitRestore /\ [][NextRestore]_vars

----------------------------------------------------------------------------
(* bbq/src/git.rs: checkout_repo, remove_repo and list_repos over the
   directories of repos_root.  Sources and names are sequences of characters;
   the worker executes the requests one at a time *)

DotGit == <<".", "g", "i", "t">>

\* the ASCII letters of the sources below
Alphanumeric == {"a", "b", "g", "h", "i", "s", "t"}

ends_with(str, suffix) ==
    /\ Len(str) >= Len(suffix)
    /\ SubSeq(str, Len(str) - Len(suffix) + 1, Len(str)) = suffix

RECURSIVE trim_end_matches(_, _)
trim_end_matches(str, suffix) ==
    IF ends_with(str, suffix)
    THEN trim_end_matches(SubSeq(str, 1, Len(str) - Len(suffix)), suffix)
    ELSE str

RECURSIVE trim_matches(_, _)
trim_matches(str, ch) ==
    IF str # <<>> /\ Head(str) = ch THEN trim_matches(Tail(str), ch)
    ELSE IF str # <<>> /\ str[Len(str)] = ch
    THEN trim_matches(SubSeq(str, 1, Len(str) - 1), ch)
    ELSE str

\* the loop of sanitize_name over the characters left
RECURSIVE sanitize_chars(_, _, _)
sanitize_chars(raw, out, last_dash) ==
    IF raw = <<>> THEN out
    ELSE IF Head(raw) \in Alphanumeric \cup {"-", "_", "."}
    THEN sanitize_chars(Tail(raw), Append(out, Head(raw)), FALSE)
    ELSE IF ~last_dash THEN sanitize_chars(Tail(raw), Append(out, "-"), TRUE)
    ELSE sanitize_chars(Tail(raw), out, TRUE)

sanitize_name(raw) == trim_matches(sanitize_chars(raw, <<>>, FALSE), "-")

\* str.rfind(ch), 0 for None
rfind(str, ch) ==
    IF \E i \in DOMAIN str : str[i] = ch
    THEN CHOOSE i \in DOMAIN str :
            str[i] = ch /\ \A j \in DOMAIN str : str[j] = ch => j <= i
    ELSE 0

after(str, idx) == SubSeq(str, idx + 1, Len(str))

repo_name_from_url(url) ==
    LET trimmed == trim(url)
        colon == rfind(trimmed, ":")
        tail1 == IF colon > 0 /\ "@" \in Range(SubSeq(trimmed, 1, colon - 1))
                 THEN after(trimmed, colon) ELSE trimmed
        slash == rfind(tail1, "/")
        tail2 == IF slash > 0 THEN after(tail1, slash) ELSE tail1
        name == sanitize_name(trim_end_matches(tail2, DotGit))
    IN IF trimmed = <<>> THEN [ok |-> FALSE, err |-> "InvalidGitUrl"]
       ELSE IF name = <<>> THEN [ok |-> FALSE, err |-> "InvalidGitUrl"]
       ELSE [ok |-> TRUE, name |-> name]

\* list_repos: a Repo for each directory, named by the directory without its
\* trailing ".git"s; the sort by name leaves the Repos what they are
list_repos(root) == {[name |-> trim_end_matches(dir, DotGit), path |-> dir] : dir \in root}

\* checkout_repo_internal(source, None): the result and the directories
\* after it; cloned is whether git clone succeeds
checkout_repo(root, source, cloned) ==
    LET named == repo_name_from_url(trim(source))
        dest == named.name \o DotGit
    IN IF trim(source) = <<>>
       THEN [ok |-> FALSE, err |-> "InvalidGitUrl", root |-> root]
       ELSE IF ~named.ok THEN [ok |-> FALSE, err |-> named.err, root |-> root]
       ELSE IF dest \in root
       THEN [ok |-> FALSE, err |-> "RepoAlreadyExists", root |-> root]
       ELSE IF ~cloned THEN [ok |-> FALSE, err |-> "GitCommand", root |-> root]
       ELSE [ok |-> TRUE, repo |-> [name |-> named.name, path |-> dest],
             root |-> root \cup {dest}]

\* a worktree on disk: the directory worktrees_root()/base/name, registered
\* in the bare repo git_dir with branch checked out
DiskWorktree(repo, name, branch) ==
    [git_dir |-> repo.path, base |-> repo.name, name |-> name, branch |-> branch]

\* the worktree names in the order of str::cmp
NameOrder == <<<<"b">>, <<"y">>>>

\* list_worktrees: the worktrees registered in repo.path, without the bare
\* repo itself, sorted by display name
list_worktrees(worktrees, repo) ==
    LET mine == {w \in worktrees : w.git_dir = repo.path}
        present == SelectSeq(NameOrder, LAMBDA n : \E w \in mine : w.name = n)
    IN [i \in DOMAIN present |->
           LET w == CHOOSE w \in mine : w.name = present[i]
           IN [path |-> w.name, branch |-> w.branch]]

worktree_matches_name(worktree, name) ==
    \/ display_name(worktree) = name
    \/ worktree.branch # NoBranch /\ worktree.branch = name

resolve_repo(root, name) ==
    LET clean == sanitize_name(name)
        short == trim_end_matches(clean, DotGit)
        path == short \o DotGit
    IN IF clean = <<>> THEN [ok |-> FALSE, err |-> "InvalidRepoName"]
       ELSE IF path \notin root THEN [ok |-> FALSE, err |-> "RepoNotFound"]
       ELSE [ok |-> TRUE, repo |-> [name |-> short, path |-> path]]

\* remove_repo: the result and the directories after it
remove_repo(root, worktrees, name) ==
    LET resolved == resolve_repo(root, name)
    IN IF ~resolved.ok THEN [ok |-> FALSE, err |-> resolved.err, root |-> root]
       ELSE IF list_worktrees(worktrees, resolved.repo) # <<>>
       THEN [ok |-> FALSE, err |-> "RepoHasWorktrees", root |-> root]
       ELSE [ok |-> TRUE, root |-> root \ {resolved.repo.path}]

\* the sources a user gives: local paths, one with a trailing dash, an ssh
\* source, a blank and a path to a name without a usable character
Sources ==
    {<<"/", "s", "/", "a">>,
     <<"/", "s", "/", "a", ".", "g", "i", "t">>,
     <<"/", "s", "/", "a", ".", "g", "i", "t", "-">>,
     <<" ", "/", "s", "/", "b">>,
     <<"g", "@", "h", ":", "b", ".", "g", "i", "t">>,
     <<" ">>,
     <<"/", "s", "/", "!">>}

InitGit ==
    /\ InitEnv
    /\ app = new_app
    /\ worker = NoRequest
    /\ ui_git = NoGit
    /\ prompts_opened = 0

\* a request reaches the worker: a source to clone, or a listed repo to remove
GitRequest ==
    /\ worker = NoRequest
    /\ \/ \E source \in Sources : worker' = [type |-> "CheckoutRepo", url |-> source]
       \/ \E repo \in list_repos(disk.repos_root) :
             worker' = [type |-> "DeleteRepo", name |-> repo.name]
    /\ UNCHANGED <<app, ui_git, prompts_opened, env>>

\* the CheckoutRepo arm of spawn_worker
WorkerCheckout ==
    /\ worker.type = "CheckoutRepo"
    /\ app.worker_rx = <<>>
    /\ \E cloned \in BOOLEAN :
          LET result == checkout_repo(disk.repos_root, worker.url, cloned)
          IN /\ disk' = [disk EXCEPT !.repos_root = result.root]
             /\ app' = [app EXCEPT !.worker_rx =
                           <<IF result.ok
                             THEN [type |-> "CheckoutRepoResult", ok |-> TRUE,
                                   repo |-> result.repo.name]
                             ELSE [type |-> "CheckoutRepoResult", ok |-> FALSE,
                                   err |-> result.err]>>]
    /\ worker' = NoRequest
    /\ UNCHANGED <<ui_git, prompts_opened, now, ui, last_event, watch_rx>>

\* the DeleteRepo arm of spawn_worker
WorkerRemove ==
    /\ worker.type = "DeleteRepo"
    /\ app.worker_rx = <<>>
    /\ LET result == remove_repo(disk.repos_root, disk.worktrees, worker.name)
       IN /\ disk' = [disk EXCEPT !.repos_root = result.root]
          /\ app' = [app EXCEPT !.worker_rx =
                        <<IF result.ok
                          THEN [type |-> "DeleteRepoResult", name |-> worker.name,
                                ok |-> TRUE]
                          ELSE [type |-> "DeleteRepoResult", name |-> worker.name,
                                ok |-> FALSE, err |-> result.err]>>]
    /\ worker' = NoRequest
    /\ UNCHANGED <<ui_git, prompts_opened, now, ui, last_event, watch_rx>>

\* try_recv takes the result
Received ==
    /\ app.worker_rx # <<>>
    /\ app' = [app EXCEPT !.worker_rx = Tail(@)]
    /\ UNCHANGED <<worker, ui_git, prompts_opened, env>>

NextGit == GitRequest \/ WorkerCheckout \/ WorkerRemove \/ Received

SpecGit == InitGit /\ [][NextGit]_vars

----------------------------------------------------------------------------
(* bbq/src/git.rs: the worktrees of a repo.  git refuses to check a branch
   out in a second worktree of the same repo, and to remove a worktree with
   changes unless forced; added and clean are what git answers otherwise *)

\* the first worktree of the list that matches the name, 0 for None
find_worktree(listed, name) ==
    IF \E i \in DOMAIN listed : worktree_matches_name(listed[i], name)
    THEN CHOOSE i \in DOMAIN listed :
            /\ worktree_matches_name(listed[i], name)
            /\ \A j \in 1..(i - 1) : ~worktree_matches_name(listed[j], name)
    ELSE 0

\* git worktree add of the directory on the branch
git_worktree_add(root, worktrees, repo, name, branch, added) ==
    /\ repo.path \in root
    /\ ~\E w \in worktrees : w.git_dir = repo.path /\ w.branch = branch
    /\ added

create_worktree_with_name(root, worktrees, repo, name, branch, added) ==
    LET dir == trim(name)
        branch_spec == trim(branch)
    IN IF dir = <<>>
       THEN [ok |-> FALSE, err |-> "InvalidWorktreeName", worktrees |-> worktrees]
       ELSE IF branch_spec = <<>>
       THEN [ok |-> FALSE, err |-> "InvalidBranchName", worktrees |-> worktrees]
       ELSE IF \E w \in worktrees : w.base = repo.name /\ w.name = dir
       THEN [ok |-> FALSE, err |-> "WorktreeAlreadyExists", worktrees |-> worktrees]
       ELSE IF ~git_worktree_add(root, worktrees, repo, dir, branch_spec, added)
       THEN [ok |-> FALSE, err |-> "GitCommand", worktrees |-> worktrees]
       ELSE [ok |-> TRUE, worktree |-> [path |-> dir, branch |-> branch_spec],
             worktrees |-> worktrees \cup {DiskWorktree(repo, dir, branch_spec)}]

create_worktree(root, worktrees, repo, branch, added) ==
    create_worktree_with_name(root, worktrees, repo, branch, branch, added)

create_worktree_from(root, worktrees, repo, name, branch, source_branch, added) ==
    LET dir == trim(name)
        on == trim(branch)
    IN IF dir = <<>>
       THEN [ok |-> FALSE, err |-> "InvalidWorktreeName", worktrees |-> worktrees]
       ELSE IF on = <<>>
       THEN [ok |-> FALSE, err |-> "InvalidBranchName", worktrees |-> worktrees]
       ELSE IF trim(source_branch) = <<>>
       THEN [ok |-> FALSE, err |-> "InvalidBranchName", worktrees |-> worktrees]
       ELSE IF \E w \in worktrees : w.base = repo.name /\ w.name = dir
       THEN [ok |-> FALSE, err |-> "WorktreeAlreadyExists", worktrees |-> worktrees]
       ELSE IF ~git_worktree_add(root, worktrees, repo, dir, on, added)
       THEN [ok |-> FALSE, err |-> "GitCommand", worktrees |-> worktrees]
       ELSE [ok |-> TRUE, worktree |-> [path |-> dir, branch |-> on],
             worktrees |-> worktrees \cup {DiskWorktree(repo, dir, on)}]

remove_worktree_with_force(root, worktrees, repo, name, force, clean) ==
    LET listed == list_worktrees(worktrees, repo)
        found == find_worktree(listed, name)
    IN IF repo.path \notin root
       THEN [ok |-> FALSE, err |-> "GitCommand", worktrees |-> worktrees]
       ELSE IF found = 0
       THEN [ok |-> FALSE, err |-> "WorktreeNotFound", worktrees |-> worktrees]
       ELSE IF ~force /\ ~clean
       THEN [ok |-> FALSE, err |-> "GitCommand", worktrees |-> worktrees]
       ELSE [ok |-> TRUE,
             worktrees |-> {w \in worktrees :
                              ~(w.git_dir = repo.path /\ w.name = listed[found].path)}]

remove_worktree(root, worktrees, repo, name, clean) ==
    remove_worktree_with_force(root, worktrees, repo, name, FALSE, clean)

\* the sources cloned in the sessions with worktrees
WorktreeSources ==
    {<<"/", "s", "/", "a">>,
     <<"/", "s", "/", "a", ".", "g", "i", "t", "-">>,
     <<" ", "/", "s", "/", "b">>}

\* a request reaches the worker: a source to clone, a worktree to create in
\* or delete from a listed repo, or a listed repo to remove
WorktreeRequest ==
    /\ worker = NoRequest
    /\ \/ \E source \in WorktreeSources :
             worker' = [type |-> "CheckoutRepo", url |-> source]
       \/ \E repo \in list_repos(disk.repos_root), name \in WtNames,
               branch \in BranchNames :
             worker' = [type |-> "CreateWorktree", repo |-> repo, name |-> name,
                        branch |-> branch, source_branch |-> DEFAULT_SOURCE_BRANCH]
       \/ \E repo \in list_repos(disk.repos_root), name \in WtNames,
               force \in BOOLEAN :
             worker' = [type |-> "DeleteWorktree", repo |-> repo, name |-> name,
                        force |-> force]
       \/ \E repo \in list_repos(disk.repos_root) :
             worker' = [type |-> "DeleteRepo", name |-> repo.name]
    /\ UNCHANGED <<app, ui_git, prompts_opened, env>>

\* the CreateWorktree arm of spawn_worker
WorkerCreateWorktree ==
    /\ worker.type = "CreateWorktree"
    /\ app.worker_rx = <<>>
    /\ \E added \in BOOLEAN :
          LET result == create_worktree_from(disk.repos_root, disk.worktrees,
                                             worker.repo, worker.name, worker.branch,
                                             worker.source_branch, added)
          IN /\ disk' = [disk EXCEPT !.worktrees = result.worktrees]
             /\ app' = [app EXCEPT !.worker_rx =
                           <<IF result.ok
                             THEN [type |-> "CreateWorktreeResult",
                                   repo_name |-> worker.repo.name, ok |-> TRUE,
                                   worktree |-> result.worktree]
                             ELSE [type |-> "CreateWorktreeResult",
                                   repo_name |-> worker.repo.name, ok |-> FALSE,
                                   err |-> result.err]>>]
    /\ worker' = NoRequest
    /\ UNCHANGED <<ui_git, prompts_opened, now, ui, last_event, watch_rx>>

\* the DeleteWorktree arm of spawn_worker
WorkerDeleteWorktree ==
    /\ worker.type = "DeleteWorktree"
    /\ app.worker_rx = <<>>
    /\ \E clean \in BOOLEAN :
          LET result == remove_worktree_with_force(disk.repos_root, disk.worktrees,
                                                   worker.repo, worker.name,
                                                   worker.force, clean)
          IN /\ disk' = [disk EXCEPT !.worktrees = result.worktrees]
             /\ app' = [app EXCEPT !.worker_rx =
                           <<IF result.ok
                             THEN [type |-> "DeleteWorktreeResult",
                                   repo_name |-> worker.repo.name,
                                   worktree_name |-> worker.name, ok |-> TRUE]
                             ELSE [type |-> "DeleteWorktreeResult",
                                   repo_name |-> worker.repo.name,
                                   worktree_name |-> worker.name, ok |-> FALSE,
                                   err |-> result.err]>>]
    /\ worker' = NoRequest
    /\ UNCHANGED <<ui_git, prompts_opened, now, ui, last_event, watch_rx>>

NextWorktrees ==
    \/ WorktreeRequest
    \/ WorkerCheckout
    \/ WorkerCreateWorktree
    \/ WorkerDeleteWorktree
    \/ WorkerRemove
    \/ Received

SpecWorktrees == InitGit /\ [][NextWorktrees]_vars

----------------------------------------------------------------------------
(* worker.rs: the watcher thread.  The notify callback queues events, relevant
   or not, and the loop of spawn_filesystem_watcher takes them one by one *)

debounce == 250

\* a watcher that lets an event through only after the window
watcher_emits_late(relevant, at, last) == relevant /\ ~(at - last <= debounce)

\* the two `continue`s of the loop: whether the event goes on as FsChanged
watcher_emits(relevant, at, last) == relevant /\ ~(at - last < debounce)

InitWatch ==
    /\ InitEnv
    /\ app = new_app
    /\ worker = NoRequest
    /\ ui_git = NoGit
    /\ prompts_opened = 0

\* the notify callback: watch_tx.send(res)
Notify ==
    /\ Len(watch_rx) < MaxNotified
    /\ \E relevant \in BOOLEAN : watch_rx' = Append(watch_rx, relevant)
    /\ UNCHANGED <<app, worker, ui_git, prompts_opened, now, ui, last_event, disk>>

\* one turn of `for event in watch_rx`
WatcherLoop ==
    /\ watch_rx # <<>>
    /\ watch_rx' = Tail(watch_rx)
    /\ IF watcher_emits(Head(watch_rx), now, last_event)
       THEN /\ last_event' = now
            /\ app' = [app EXCEPT !.worker_rx = Append(@, [type |-> "FsChanged"])]
       ELSE UNCHANGED <<last_event, app>>
    /\ UNCHANGED <<worker, ui_git, prompts_opened, now, ui, disk>>

PassWatch == Pass({100, 150}, MaxWatched)

NextWatch == Notify \/ WatcherLoop \/ PassWatch

SpecWatch == InitWatch /\ [][NextWatch]_vars

----------------------------------------------------------------------------
(* The reload loop from end to end: the file system changes, the watcher
   debounces, the App asks for reloads and the worker scans the disk as it is
   when it runs the scan.  The channels are unbounded as in the program; the
   clock stops at MaxActive and the file system is quiet from then on *)

\* the directory of a repo under repos_root()
RepoDir(name) ==
    IF name = "r1" THEN <<"r", "1", ".", "g", "i", "t">>
    ELSE <<"r", "2", ".", "g", "i", "t">>

\* load_all_data() over the disk: git and the file system answer, no repo
\* has a worktree
scan_disk(d) ==
    load_all_data(SelectSeq(<<"r1", "r2">>, LAMBDA name : RepoDir(name) \in d.repos_root),
                  [name \in RepoNames |-> [ok |-> TRUE, entries |-> <<>>]])

\* the session starts with the first load, or with the user having typed a
\* source and pressed Enter on the clone prompt before anything else happened
InitSettle ==
    /\ InitEnv
    /\ \E cloning \in BOOLEAN :
          LET started == request_all_data(
                            request_env_info(apply_restore_state(new_app, NoRestore)),
                            FALSE)
              typed == handle_input_char(open_checkout_prompt(started), "y")
          IN app = IF cloning THEN handle_input_enter(typed, DEFAULT_SOURCE_BRANCH)
                   ELSE started
    /\ worker = NoRequest
    /\ ui_git = NoGit
    /\ prompts_opened = 0

PassSettle == Pass({100, 200}, MaxActive)

\* something outside bbq changes the disk and notify calls the callback: the
\* directory of r1 appears or disappears (a relevant event), or a file
\* changes that the watcher does not care about
FsActivity ==
    /\ now < MaxActive
    /\ Len(watch_rx) < MaxQueue
    /\ \/ /\ watch_rx' = Append(watch_rx, TRUE)
          /\ disk' = [disk EXCEPT !.repos_root =
                         IF RepoDir("r1") \in @ THEN @ \ {RepoDir("r1")}
                         ELSE @ \cup {RepoDir("r1")}]
       \/ /\ watch_rx' = Append(watch_rx, FALSE)
          /\ disk' = disk
    /\ UNCHANGED <<app, worker, ui_git, prompts_opened, now, ui, last_event>>

\* the LoadAll arm of spawn_worker: the scan sees the disk as it is now
WorkerLoadAll ==
    /\ worker.type = "LoadAll"
    /\ app' = [app EXCEPT !.worker_rx =
                  Append(@, [type |-> "AllDataLoaded", request_id |-> worker.request_id,
                             ok |-> TRUE, data |-> scan_disk(disk)])]
    /\ worker' = NoRequest
    /\ ui_git' = NoGit
    /\ UNCHANGED <<prompts_opened, env>>

\* the CheckoutRepo arm of spawn_worker: the clone fails, or it creates the
\* directory of r1, which notify reports
WorkerClone ==
    /\ worker.type = "CheckoutRepo"
    /\ \/ /\ app' = [app EXCEPT !.worker_rx =
                         Append(@, [type |-> "CheckoutRepoResult", ok |-> FALSE,
                                    err |-> "checkout failed"])]
          /\ UNCHANGED <<disk, watch_rx>>
       \/ /\ RepoDir("r1") \notin disk.repos_root
          /\ app' = [app EXCEPT !.worker_rx =
                         Append(@, [type |-> "CheckoutRepoResult", ok |-> TRUE,
                                    repo |-> "r1"])]
          /\ disk' = [disk EXCEPT !.repos_root = @ \cup {RepoDir("r1")}]
          /\ watch_rx' = Append(watch_rx, TRUE)
    /\ worker' = NoRequest
    /\ ui_git' = NoGit
    /\ UNCHANGED <<prompts_opened, now, ui, last_event>>

\* the other arms of spawn_worker
WorkerAnswer ==
    /\ worker.type \notin {NoRequest.type, "LoadAll", "CheckoutRepo"}
    /\ \E event \in worker_events(worker, {}) :
          app' = [app EXCEPT !.worker_rx = Append(@, event)]
    /\ worker' = NoRequest
    /\ ui_git' = NoGit
    /\ UNCHANGED <<prompts_opened, env>>

\* run_app: handle_worker_events takes the next event of the channel
SettleHandleWorkerEvent ==
    /\ app.worker_rx # <<>>
    /\ app' = handle_worker_event([app EXCEPT !.worker_rx = Tail(@)], Head(app.worker_rx))
    /\ ui_git' = NoGit
    /\ UNCHANGED <<worker, prompts_opened, env>>

\* the worker thread
WorkerSettle == WorkerTake \/ WorkerLoadAll \/ WorkerClone \/ WorkerAnswer

NextSettle ==
    \/ FsActivity
    \/ WatcherLoop
    \/ PassSettle
    \/ SettleHandleWorkerEvent
    \/ WorkerSettle

SpecSettle == InitSettle /\ [][NextSettle]_vars

\* the worker completes every request it receives, the watcher thread keeps
\* running, time passes and the UI keeps ticking: every iteration of run_app
\* takes events until try_recv finds the channel empty
FairSettle ==
    /\ SpecSettle
    /\ WF_vars(WorkerSettle)
    /\ WF_vars(WatcherLoop)
    /\ WF_vars(PassSettle)
    /\ []<>(app.worker_rx = <<>>)

----------------------------------------------------------------------------
(* app.rs: the three lists a key moves in.  The list of repos and worktrees
   is any list r1 and r2 can give, with a step of the wizard and the update
   prompt beside it; the only keys are Up and Down *)

MoveApps ==
    {[rebuild_tree_items(a, NoKey) EXCEPT
         !.setup = from_step(step, machine), !.setup_steps = <<step>>,
         !.update_prompt = new_update_prompt] :
        a \in TreeApps, step \in {"DefaultWorktreeName", "Editor", "Terminal"},
        machine \in Machines}

InitMove ==
    /\ InitEnv
    /\ app \in MoveApps
    /\ worker = NoRequest
    /\ ui_git = NoGit
    /\ prompts_opened = 0

MoveList == \E delta \in {0 - 1, 1} : Ui(move_selection(app, delta))

MoveSetup == \E delta \in {0 - 1, 1} : Ui(setup_move_selection(app, delta))

MoveUpdate == \E delta \in {0 - 1, 1} : Ui(update_move_selection(app, delta))

NextMove == MoveList \/ MoveSetup \/ MoveUpdate

SpecMove == InitMove /\ [][NextMove]_vars

----------------------------------------------------------------------------
(* Properties *)

\* the step in which handle_worker_events takes the event at the head of the
\* channel
Handles(type) ==
    /\ app.worker_rx # <<>>
    /\ Head(app.worker_rx).type = type
    /\ app'.worker_rx = Tail(app.worker_rx)

\* the positions of the LoadAll requests the step of the UI thread sends
SentLoadAll ==
    {i \in DOMAIN app'.worker_tx :
        i > Len(app.worker_tx) /\ app'.worker_tx[i].type = "LoadAll"}

Silent(a) == ~loading_message(a, "Repos") /\ ~loading_message(a, "Worktrees")

\* the status shown has this tone and this text
Shows(a, tone, message) == a.status.tone = tone /\ a.status.text = message

\* C1: an AllDataLoaded event whose request_id is not the pending one (nothing
\* pending included) is discarded: processing it removes it from the channel
\* and changes nothing else of the App (repos, worktrees, tree items,
\* selection, expanded set, status, loading indicators, pending id,
\* needs_reload, request channel)
C1_StaleDiscarded ==
    [][(Handles("AllDataLoaded")
        /\ Head(app.worker_rx).request_id # app.pending_all_request)
       => app' = [app EXCEPT !.worker_rx = Tail(@)]]_vars

\* a stale result is waiting while a newer request is pending
C1_Witness ==
    /\ app.worker_rx # <<>>
    /\ Head(app.worker_rx).type = "AllDataLoaded"
    /\ app.pending_all_request # NoId
    /\ Head(app.worker_rx).request_id < app.pending_all_request

\* the event the step takes out of the channel, at any position
Takes(i) ==
    /\ i \in DOMAIN app.worker_rx
    /\ app'.worker_rx = RemoveAt(app.worker_rx, i)

\* the data of the App is the data of the result
HoldsResult(a, event) ==
    IF event.ok
    THEN a.repos = event.data.repos /\ a.repo_worktrees = event.data.repo_worktrees
    ELSE a.repos = <<>> /\ a.repo_worktrees = <<>>

\* what of the App a user can see
Visible(a) ==
    <<a.repos, a.repo_worktrees, a.tree_items, a.selected, a.expanded_repos, a.status,
      a.loading, a.focus, a.input>>

\* C2: of the LoadAll requests issued, only the result of the latest one is
\* applied, in whichever order the results are processed: processing the
\* result of the latest request leaves its data in the App, and processing the
\* result of an older request, before or after, has no visible effect
C2_LatestResultWins ==
    [][\A i \in DOMAIN app.worker_rx :
          (Takes(i) /\ app.worker_rx[i].type = "AllDataLoaded")
          => IF app.worker_rx[i].request_id = app.request_seq
             THEN HoldsResult(app', app.worker_rx[i])
             ELSE Visible(app') = Visible(app)]_vars

\* the result of the latest request has been processed and the result of an
\* older one is still to be processed
C2_Witness ==
    /\ app.pending_all_request = NoId
    /\ \E i \in DOMAIN app.worker_rx :
          /\ app.worker_rx[i].type = "AllDataLoaded"
          /\ app.worker_rx[i].request_id < app.request_seq

\* the LoadAll requests not yet answered or whose answer is not yet processed
LoadsInFlight ==
    Len(SelectSeq(app.worker_tx, LAMBDA r : r.type = "LoadAll"))
    + (IF worker.type = "LoadAll" THEN 1 ELSE 0)
    + Len(SelectSeq(app.worker_rx, LAMBDA e : e.type = "AllDataLoaded"))

\* C3: an FsChanged processed while a LoadAll is pending sends nothing and only
\* sets needs_reload, so any number of them leaves one flag; whatever the
\* watcher does there is at most one LoadAll in flight, and the step that
\* processes a result sends at most one LoadAll
C3_FsChangedCoalesced ==
    /\ [][(Handles("FsChanged") /\ app.pending_all_request # NoId)
          => app' = [app EXCEPT !.worker_rx = Tail(@), !.needs_reload = TRUE]]_vars
    /\ [][Handles("AllDataLoaded") => Cardinality(SentLoadAll) <= 1]_vars
    /\ [](LoadsInFlight <= 1)

\* a further FsChanged is about to be processed, the flag already set
C3_Witness ==
    /\ app.worker_rx # <<>>
    /\ Head(app.worker_rx).type = "FsChanged"
    /\ app.pending_all_request # NoId
    /\ app.needs_reload

\* C4: processing the result of the pending LoadAll, Ok or Err, with
\* needs_reload set clears the flag, allocates the next id, records it as
\* pending and sends LoadAll with it, with no Repos or Worktrees indicator;
\* with the flag not set it sends nothing and nothing is pending
C4_ReloadAfterResult ==
    [][(Handles("AllDataLoaded")
        /\ Head(app.worker_rx).request_id = app.pending_all_request)
       => IF app.needs_reload
          THEN /\ ~app'.needs_reload
               /\ app'.request_seq = app.request_seq + 1
               /\ app'.pending_all_request = app'.request_seq
               /\ app'.worker_tx =
                      Append(app.worker_tx,
                             [type |-> "LoadAll", request_id |-> app'.request_seq])
               /\ Silent(app')
          ELSE /\ app'.worker_tx = app.worker_tx
               /\ app'.pending_all_request = NoId
               /\ app'.request_seq = app.request_seq]_vars

\* the result of the pending request is about to be processed, the flag set, and
\* the indicators of that request are showing
C4_Witness ==
    /\ app.worker_rx # <<>>
    /\ Head(app.worker_rx).type = "AllDataLoaded"
    /\ Head(app.worker_rx).request_id = app.pending_all_request
    /\ app.needs_reload
    /\ app.request_seq < MaxSeq
    /\ ~Silent(app)

\* C5: the selection is None exactly when the tree is empty, and otherwise an
\* index below the length of the tree
C5_SelectionInTree ==
    /\ (app.selected = NoSel) <=> (app.tree_items = <<>>)
    /\ app.selected # NoSel => (0 <= app.selected /\ app.selected < Len(app.tree_items))

\* the last of several items is selected while a prompt is open
C5_Witness ==
    /\ Len(app.tree_items) > 1
    /\ app.selected = Len(app.tree_items) - 1
    /\ app.focus = "Input"

\* how many items the repo takes in the flattening
BlockLen(a, name) ==
    1 + (IF name \in a.expanded_repos THEN Len(worktrees_of(a.repo_worktrees, name))
         ELSE 0)

\* where the item of the i-th repo is in the flattening
RECURSIVE BlockStart(_, _)
BlockStart(a, i) ==
    IF i = 1 THEN 1 ELSE BlockStart(a, i - 1) + BlockLen(a, a.repos[i - 1])

\* C6: the tree items are the flattening of (repos, worktrees, expanded set):
\* one Repo item per loaded repo, in the order of the repos, each followed by
\* one Worktree item per worktree entry of the repo, in their order, exactly
\* when the name of the repo is in the expanded set
C6_TreeIsFlattening ==
    /\ Len(app.tree_items) = BlockStart(app, Len(app.repos) + 1) - 1
    /\ \A i \in DOMAIN app.repos :
          LET name == app.repos[i]
              at == BlockStart(app, i)
              entries == worktrees_of(app.repo_worktrees, name)
          IN /\ app.tree_items[at].kind = "Repo"
             /\ app.tree_items[at].name = name
             /\ app.tree_items[at].expanded = (name \in app.expanded_repos)
             /\ \A k \in 1 .. BlockLen(app, name) - 1 :
                   app.tree_items[at + k] =
                       [kind |-> "Worktree", repo |-> name, entry |-> entries[k]]

\* an expanded repo with two worktrees, then a second repo
C6_Witness ==
    /\ app.repos = <<"r1", "r2">>
    /\ app.expanded_repos = {"r1"}
    /\ Len(app.tree_items) = 4
    /\ app.tree_items[4].kind = "Repo"

\* C7: after rebuild_tree_items(preferred) the selected item is the one whose
\* own tree key is the preferred key when the rebuilt list has such an item,
\* and the previous index clamped to the list when it has none
C7_PreferredKeySelected ==
    [][\A preferred \in TreeKeys :
          app' = rebuild_tree_items(app, preferred)
          => IF \E i \in DOMAIN app'.tree_items :
                   tree_item_key(app'.tree_items[i]) = preferred
             THEN selected_tree_key(app') = preferred
             ELSE app'.selected = clamp_selection(app.selected, Len(app'.tree_items))]_vars

\* C8: when the Ok result of a silent reload is applied and the tree key of the
\* item selected before is the key of an item of the rebuilt tree, the item
\* selected afterwards has that key
C8_SilentReloadKeepsSelection ==
    [][(/\ Handles("AllDataLoaded")
        /\ Head(app.worker_rx).request_id = app.pending_all_request
        /\ Head(app.worker_rx).ok
        /\ Silent(app)
        /\ selected_tree_key(app) # NoKey
        /\ \E i \in DOMAIN app'.tree_items :
              tree_item_key(app'.tree_items[i]) = selected_tree_key(app))
       => selected_tree_key(app') = selected_tree_key(app)]_vars

\* the event answers the request: the arm of spawn_worker for its type
Answers(request, event) ==
    CASE request.type = "LoadEnvInfo" -> event.type = "EnvInfoLoaded"
      [] request.type = "LoadAll" ->
           event.type = "AllDataLoaded" /\ event.request_id = request.request_id
      [] request.type = "CheckoutRepo" -> event.type = "CheckoutRepoResult"
      [] request.type = "CreateWorktree" -> event.type = "CreateWorktreeResult"
      [] request.type = "DeleteRepo" -> event.type = "DeleteRepoResult"
      [] request.type = "DeleteWorktree" -> event.type = "DeleteWorktreeResult"

worker_git_repos(request) ==
    CASE request.type = "LoadAll" -> RepoNames
      [] request.type \in {"CreateWorktree", "DeleteWorktree"} -> {request.repo}
      [] OTHER -> {}

\* C10: the UI thread runs no git in a repo while the worker executes a
\* request that runs git in that repo
C10_GitSerialized == ui_git # NoGit => ui_git \notin worker_git_repos(worker)

\* the positions of the requests the step of the UI thread sends
NewRequests == {i \in DOMAIN app'.worker_tx : i > Len(app.worker_tx)}

\* the loaded data has a worktree of that name with a changed file
HasChanges(a, repo, name) ==
    \E e \in Range(worktrees_of(a.repo_worktrees, repo)) :
        display_name(e.worktree) = name /\ e.changed_files > 0

\* buf is a non-empty prefix of the word
IsPrefixOf(word, buf) ==
    /\ buf # <<>>
    /\ Len(buf) <= Len(word)
    /\ \A i \in DOMAIN buf : buf[i] = word[i]

Discard == <<"d", "i", "s", "c", "a", "r", "d">>

Yes == <<"y", "e", "s">>

\* C11: a DeleteWorktree is sent only by Enter in a prompt for that worktree;
\* force=false is sent only from the first prompt and only when the loaded
\* data shows no changed file for the worktree; force=true is sent only from
\* the second prompt, with a buffer that trimmed and lower-cased is a
\* non-empty prefix of "discard"; the second prompt is opened only by
\* confirming the first for a worktree with changed files
C11_DirtyWorktreeNeedsDiscard ==
    [][/\ \A i \in NewRequests :
            LET r == app'.worker_tx[i]
            IN r.type = "DeleteWorktree" =>
                 /\ app.focus = "Input"
                 /\ app.input.repo = r.repo /\ app.input.name = r.name
                 /\ ~r.force => /\ app.input.kind = "DeleteWorktree"
                                /\ ~HasChanges(app, r.repo, r.name)
                 /\ r.force => /\ app.input.kind = "DeleteWorktreeForce"
                               /\ IsPrefixOf(Discard,
                                             to_ascii_lowercase(trim(app.input.buffer)))
       /\ (app'.input.kind = "DeleteWorktreeForce"
           /\ app.input.kind # "DeleteWorktreeForce")
          => /\ app.input.kind = "DeleteWorktree"
             /\ HasChanges(app, app.input.repo, app.input.name)
             /\ IsPrefixOf(Yes, to_ascii_lowercase(trim(app.input.buffer)))
             /\ NewRequests = {}]_vars

\* the worker deletes with force the worktree that has a changed file
C11_Witness ==
    /\ worker.type = "DeleteWorktree"
    /\ worker.force
    /\ HasChanges(app, worker.repo, worker.name)

\* ch is the letter, in either case
SameLetter(ch, letter) ==
    ch = letter \/ <<ch, letter>> \in {<<"Y", "y">>, <<"E", "e">>, <<"S", "s">>,
                                        <<"D", "d">>, <<"I", "i">>, <<"C", "c">>,
                                        <<"A", "a">>, <<"R", "r">>}

\* the input is spaces, then a non-empty prefix of the word in any case, then
\* spaces
Confirms(word, input) ==
    \E from, to \in DOMAIN input :
        /\ from <= to
        /\ to - from < Len(word)
        /\ \A i \in DOMAIN input : (i < from \/ i > to) => input[i] = " "
        /\ \A i \in from .. to : SameLetter(input[i], word[i - from + 1])

\* C12: delete_confirmed is true exactly of the inputs that trimmed and
\* lower-cased are a non-empty prefix of "yes", discard_confirmed exactly of
\* those that are a non-empty prefix of "discard"; Enter in the DeleteRepo
\* prompt sends the request exactly for those inputs
C12_ConfirmationIsPrefix ==
    [][app.input # NoInput =>
         /\ delete_confirmed(app.input.buffer) <=> Confirms(Yes, app.input.buffer)
         /\ discard_confirmed(app.input.buffer) <=> Confirms(Discard, app.input.buffer)
         /\ app.input.kind = "DeleteRepo" =>
               (NewRequests # {} <=> Confirms(Yes, app.input.buffer))
         /\ app.input.kind = "DeleteWorktreeForce" =>
               (NewRequests # {} <=> Confirms(Discard, app.input.buffer))]_vars

\* a confirming buffer has been submitted and the DeleteRepo request sent
C12_Witness ==
    /\ app.input = NoInput
    /\ app.worker_tx # <<>>
    /\ Head(app.worker_tx).type = "DeleteRepo"

DeleteKinds == {"DeleteRepo", "DeleteWorktree", "DeleteWorktreeForce"}

WizardKinds == {"CreateWorktreeName", "CreateWorktreeSource", "CreateWorktreeBranch"}

\* the buffer of the confirmation prompt confirms
Confirming(input) ==
    IF input.kind = "DeleteWorktreeForce" THEN Confirms(Discard, input.buffer)
    ELSE Confirms(Yes, input.buffer)

\* the step is Enter or Escape in the prompt: the prompt changes in more than
\* its buffer
LeavesPrompt ==
    /\ app.input # NoInput
    /\ [app'.input EXCEPT !.buffer = app.input.buffer] # app.input

\* the prompt is gone, the focus is on the list, nothing is sent and the view
\* is as it was
Cancelled ==
    /\ app'.input = NoInput
    /\ app'.focus = "List"
    /\ NewRequests = {}
    /\ app'.repos = app.repos
    /\ app'.repo_worktrees = app.repo_worktrees
    /\ app'.tree_items = app.tree_items
    /\ app'.selected = app.selected
    /\ app'.expanded_repos = app.expanded_repos

\* C13: a DeleteRepo or DeleteWorktree request is sent only by Enter in the
\* confirmation prompt of that target with a confirming buffer; Escape, and
\* Enter with an empty or non-matching buffer, remove the prompt, put the
\* focus on the list, send nothing and leave repos, worktrees, tree,
\* selection and expanded set as they were
C13_DeleteOnlyWhenConfirmed ==
    [][/\ \A i \in NewRequests :
            LET r == app'.worker_tx[i]
            IN /\ r.type = "DeleteRepo" =>
                    /\ InputEnter
                    /\ app.input.kind = "DeleteRepo" /\ app.input.repo = r.name
                    /\ Confirming(app.input)
               /\ r.type = "DeleteWorktree" =>
                    /\ InputEnter
                    /\ app.input.kind \in {"DeleteWorktree", "DeleteWorktreeForce"}
                    /\ app.input.repo = r.repo /\ app.input.name = r.name
                    /\ Confirming(app.input)
       /\ (app.input.kind \in DeleteKinds /\ InputEsc) => Cancelled
       /\ (app.input.kind \in DeleteKinds /\ InputEnter /\ ~Confirming(app.input))
          => Cancelled
       /\ (app.input.kind \in DeleteKinds /\ LeavesPrompt /\ ~Confirming(app.input))
          => Cancelled]_vars

\* Enter with a non-matching buffer has cancelled the deletion
C13_Witness ==
    /\ app.status.text = "Delete canceled"
    /\ app.input = NoInput
    /\ app.focus = "List"
    /\ app.worker_tx = <<>>
    /\ worker = NoRequest

\* the validator of the step of the wizard rejects the trimmed buffer
Rejected(input) ==
    IF input.kind = "CreateWorktreeName"
    THEN validate_worktree_name(trim(input.buffer)) # ""
    ELSE validate_branch_name(trim(input.buffer)) # ""

\* C14: Enter in a prompt of the wizard with a buffer its validator rejects
\* sends nothing, sets an Error status and leaves the same prompt open: same
\* step, same repo, name and source branch, and the buffer as typed
C14_InvalidInputKeepsPrompt ==
    [][(InputEnter /\ app.input.kind \in WizardKinds /\ Rejected(app.input))
       => /\ NewRequests = {}
          /\ app'.status.tone = "Error"
          /\ app'.focus = "Input"
          /\ app'.input = app.input]_vars

\* the third step has rejected " /" and still shows it
C14_Witness ==
    /\ app.focus = "Input"
    /\ app.input.kind = "CreateWorktreeBranch"
    /\ app.input.buffer = <<" ", "/">>
    /\ app.status.text = "Branch name cannot start or end with '/'"

\* C15: Enter in the clone prompt with an empty or whitespace-only url sends
\* nothing, sets an Error status and leaves a CheckoutRepo prompt open in
\* input mode
C15_EmptyUrlKeepsPrompt ==
    [][(InputEnter /\ app.input.kind = "CheckoutRepo" /\ trim(app.input.buffer) = <<>>)
       => /\ NewRequests = {}
          /\ app'.status.tone = "Error"
          /\ app'.focus = "Input"
          /\ app'.input.kind = "CheckoutRepo"]_vars

\* a branch name git can take, of the characters of these sessions
ValidBranch(name) ==
    /\ name # <<>>
    /\ \A i \in DOMAIN name : name[i] \in {"y", "d", "b", "origin/main", "/"}
    /\ name[1] # "/"
    /\ name[Len(name)] # "/"

ValidWorktreeName(name) ==
    /\ name # <<>>
    /\ \A i \in DOMAIN name : name[i] \in {"y", "d", "b"}

\* C16: the wizard opens at the name step for the selected repo; the source
\* step is entered only from the name step with a valid trimmed name, the
\* branch step only from the source step with a valid trimmed source branch,
\* repo and name carried over; CreateWorktree is sent only by Enter at the
\* branch step with a valid trimmed branch, and carries the repo, name and
\* source branch the prompt holds
C16_WizardInOrder ==
    [][/\ \A i \in NewRequests :
            LET r == app'.worker_tx[i]
            IN r.type = "CreateWorktree" =>
                 /\ InputEnter
                 /\ app.input.kind = "CreateWorktreeBranch"
                 /\ r.repo = app.input.repo
                 /\ r.name = app.input.name
                 /\ r.source_branch = app.input.source_branch
                 /\ r.branch = trim(app.input.buffer)
                 /\ ValidBranch(r.branch)
       /\ (app'.input.kind = "CreateWorktreeName" /\ app.input.kind # "CreateWorktreeName")
          => /\ app.input = NoInput
             /\ app.focus = "List"
             /\ app'.input.repo = selected_repo(app)
             /\ app'.input.repo # None
       /\ (app'.input.kind = "CreateWorktreeSource"
           /\ app.input.kind # "CreateWorktreeSource")
          => /\ InputEnter
             /\ app.input.kind = "CreateWorktreeName"
             /\ app'.input.repo = app.input.repo
             /\ app'.input.name = trim(app.input.buffer)
             /\ ValidWorktreeName(app'.input.name)
       /\ (app'.input.kind = "CreateWorktreeBranch"
           /\ app.input.kind # "CreateWorktreeBranch")
          => /\ InputEnter
             /\ app.input.kind = "CreateWorktreeSource"
             /\ app'.input.repo = app.input.repo
             /\ app'.input.name = app.input.name
             /\ app'.input.source_branch = trim(app.input.buffer)
             /\ ValidBranch(app'.input.source_branch)
       /\ (app.input.kind \in WizardKinds /\ app'.input.kind \in WizardKinds)
          => app'.input.repo = app.input.repo]_vars

\* the worker creates worktree d of r1 from the typed source y on the typed
\* branch dy
C16_Witness ==
    /\ worker.type = "CreateWorktree"
    /\ worker.repo = "r1"
    /\ worker.name = <<"d">>
    /\ worker.source_branch = <<"y">>
    /\ worker.branch = <<"d", "y">>

\* C17: processing a successful CheckoutRepoResult for a repo sends a LoadAll
\* with the Repos and Worktrees indicators set and records the repo as the
\* one to select; when a successful reload whose data contains the recorded
\* repo is then applied, the selection is on the repo's item
C17_ClonedRepoSelected ==
    [][/\ (Handles("CheckoutRepoResult") /\ Head(app.worker_rx).ok)
          => /\ SentLoadAll # {}
             /\ loading_message(app', "Repos")
             /\ loading_message(app', "Worktrees")
             /\ app'.desired_repo_selection = Head(app.worker_rx).repo
       /\ (/\ Handles("AllDataLoaded")
           /\ Head(app.worker_rx).request_id = app.pending_all_request
           /\ Head(app.worker_rx).ok
           /\ app.desired_repo_selection # None
           /\ app.desired_repo_selection \in Range(Head(app.worker_rx).data.repos))
          => selected_tree_key(app') = repo_key(app.desired_repo_selection)]_vars

ActionResults ==
    {"CheckoutRepoResult", "CreateWorktreeResult", "DeleteRepoResult",
     "DeleteWorktreeResult"}

\* C18: processing a CheckoutRepoResult, CreateWorktreeResult, DeleteRepoResult
\* or DeleteWorktreeResult that carries a failure sets an Error status with
\* the failure text, clears the Action loading indicator, sends no request
\* and leaves repos, worktrees, tree items, selection, expanded set, focus and
\* the open prompt unchanged
C18_FailedActionKeepsView ==
    [][\A type \in ActionResults :
          (Handles(type) /\ ~Head(app.worker_rx).ok)
          => /\ Shows(app', "Error", Head(app.worker_rx).err)
             /\ ~loading_message(app', "Action")
             /\ app'.worker_tx = app.worker_tx
             /\ app'.request_seq = app.request_seq
             /\ app'.repos = app.repos
             /\ app'.repo_worktrees = app.repo_worktrees
             /\ app'.tree_items = app.tree_items
             /\ app'.selected = app.selected
             /\ app'.expanded_repos = app.expanded_repos
             /\ app'.focus = app.focus
             /\ app'.input = app.input]_vars

\* the clone has failed while the user is typing the name of a new worktree:
\* the error shows and the prompt is still open
C18_Witness ==
    /\ Shows(app, "Error", "checkout failed")
    /\ app.focus = "Input"
    /\ app.input.kind = "CreateWorktreeName"
    /\ app.worker_rx = <<>>
    /\ ~loading_message(app, "Action")

\* C19: when the AllDataLoaded event of the pending request carries a
\* failure, processing it sets an Error status with the failure text and
\* leaves repos, worktrees, tree items, selection and expanded set unchanged
C19_FailedReloadKeepsView ==
    [][(/\ Handles("AllDataLoaded")
        /\ Head(app.worker_rx).request_id = app.pending_all_request
        /\ ~Head(app.worker_rx).ok)
       => /\ Shows(app', "Error", Head(app.worker_rx).err)
          /\ app'.repos = app.repos
          /\ app'.repo_worktrees = app.repo_worktrees
          /\ app'.tree_items = app.tree_items
          /\ app'.selected = app.selected
          /\ app'.expanded_repos = app.expanded_repos]_vars

\* C20: a scan whose enumeration succeeded is answered with Ok data that holds
\* the enumerated repos, for each of them the entries of its listing when the
\* listing succeeded and no entry when it failed, and an error exactly when a
\* listing failed; processing such data for the pending request makes it the
\* App's repos and worktrees, gives every scanned repo an item of the tree and,
\* when the data carries an error, shows it as an Error status
C20_ScanAggregatesErrors ==
    [][/\ (worker.type = "LoadAllListed" /\ worker' = NoRequest)
          => LET event == app'.worker_rx[Len(app'.worker_rx)]
             IN /\ Len(app'.worker_rx) = Len(app.worker_rx) + 1
                /\ event.type = "AllDataLoaded"
                /\ event.request_id = worker.request_id
                /\ event.ok
                /\ event.data.repos = worker.repos
                /\ DOMAIN event.data.repo_worktrees = Range(worker.repos)
                /\ \A name \in Range(worker.repos) :
                      event.data.repo_worktrees[name]
                         = IF worker.outcome[name].ok
                           THEN worker.outcome[name].entries ELSE <<>>
                /\ (event.data.error # None)
                      <=> (\E name \in Range(worker.repos) : ~worker.outcome[name].ok)
       /\ (/\ Handles("AllDataLoaded")
           /\ Head(app.worker_rx).request_id = app.pending_all_request
           /\ Head(app.worker_rx).ok)
          => LET data == Head(app.worker_rx).data
             IN /\ app'.repos = data.repos
                /\ app'.repo_worktrees = data.repo_worktrees
                /\ \A name \in Range(data.repos) :
                      \E i \in DOMAIN app'.tree_items :
                         /\ app'.tree_items[i].kind = "Repo"
                         /\ app'.tree_items[i].name = name
                /\ data.error # None
                      => Shows(app', "Error", data.error)]_vars

\* the listing of r2 failed and that of r1 did not: both repos are in the tree,
\* r1 is expanded and shows its two worktrees, and the error is the status
C20_Witness ==
    /\ app.repos = <<"r1", "r2">>
    /\ app.repo_worktrees["r1"] = <<EntryA, EntryB>>
    /\ app.repo_worktrees["r2"] = <<>>
    /\ Len(app.tree_items) = 4
    /\ Shows(app, "Error", "list worktrees failed")

\* the message of the group, NoLoading when the group has none
LoadingOf(a, group) ==
    IF loading_message(a, group)
    THEN a.loading[CHOOSE i \in DOMAIN a.loading : a.loading[i].group = group]
    ELSE NoLoading

\* C21: the loading list holds at most one message of a group; a step changes
\* the message of at most one group; the message chosen for display is in the
\* list, no message of the list has a higher priority, and none of the same
\* priority started earlier
C21_LoadingKeyedByGroup ==
    [][/\ \A i, j \in DOMAIN app'.loading :
             app'.loading[i].group = app'.loading[j].group => i = j
       /\ \E group \in LoadingGroups :
             \A other \in LoadingGroups \ {group} :
                LoadingOf(app', other) = LoadingOf(app, other)
       /\ IF app'.loading = <<>> THEN current_loading(app') = NoLoading
          ELSE /\ \E i \in DOMAIN app'.loading : app'.loading[i] = current_loading(app')
               /\ \A i \in DOMAIN app'.loading :
                     /\ rank(app'.loading[i].priority)
                           <= rank(current_loading(app').priority)
                     /\ rank(app'.loading[i].priority)
                           = rank(current_loading(app').priority)
                        => app'.loading[i].started_at
                              >= current_loading(app').started_at]_vars

\* an Action message started last is displayed ahead of three Background
\* messages started earlier
C21_Witness ==
    /\ Len(app.loading) = 4
    /\ app.loading[4].priority = "Action"
    /\ app.loading[4].started_at > app.loading[1].started_at
    /\ app.loading[1].priority = "Background"
    /\ current_loading(app) = app.loading[4]

\* C22: a step that sets a status leaves it as the only one, with the
\* deadline min(2000 + 30 * characters, 8000) ms after the time of the step;
\* every iteration of run_app starts with the check of the deadline, which
\* clears a status whose deadline has come and keeps any other, and only then
\* handles worker events and draws; Escape on the list clears the status
C22_StatusExpires ==
    [][/\ (app'.status # app.status /\ app'.status # NoStatus)
          => LET chars == Len(app'.status.text)
             IN app'.status.deadline
                   = now + (IF 2000 + 30 * chars < 8000 THEN 2000 + 30 * chars
                            ELSE 8000)
       /\ (ui = "update_status" /\ ui' # ui)
          => /\ ui' = "handle_worker_events"
             /\ app'.worker_rx = app.worker_rx
             /\ IF app.status # NoStatus /\ now >= app.status.deadline
                THEN app'.status = NoStatus ELSE app'.status = app.status
       /\ Len(app'.worker_rx) < Len(app.worker_rx) => ui = "handle_worker_events"
       /\ (ui = "handle_worker_events" /\ ui' # ui) => ui' = "poll"
       /\ (ui = "poll" /\ ui' # ui) => ui' = "update_status"
       /\ (ui = "poll" /\ KeyEsc) => app'.status = NoStatus]_vars

\* the long error has been showing since the clock read 0 and the check at
\* 7440 ms has kept it: its deadline is the cap of 8000 ms
C22_Witness ==
    /\ app.status # NoStatus
    /\ app.status.text = LongError
    /\ app.status.deadline = 8000
    /\ now = 7440
    /\ ui = "handle_worker_events"

\* the step in which run_app handles a key
KeyStep == UpdatePromptKey \/ SetupKey \/ InputKey \/ ListKey

\* the step leaves the list and the input prompt as they were
ListUntouched ==
    /\ app'.selected = app.selected
    /\ app'.tree_items = app.tree_items
    /\ app'.expanded_repos = app.expanded_repos
    /\ app'.focus = app.focus
    /\ app'.input = app.input

\* C23: a key handled while the update prompt or the wizard is active leaves
\* the tree selection, the expanded set, the focus and the input prompt as
\* they were and sends no request other than RunUpgrade; a key handled while
\* the update prompt is active leaves the wizard as it was; with neither
\* active and the input prompt open, a key leaves the list as it was and
\* does not end the session
C23_ModalKeys ==
    [][KeyStep =>
         /\ (is_update_prompt_mode(app) \/ is_setup_mode(app))
            => /\ ListUntouched
               /\ \A i \in NewRequests : app'.worker_tx[i].type = "RunUpgrade"
         /\ is_update_prompt_mode(app)
            => /\ app'.setup = app.setup
               /\ app'.setup_steps = app.setup_steps
         /\ (~is_update_prompt_mode(app) /\ is_setup_mode(app))
            => /\ app'.update_prompt = app.update_prompt
               /\ NewRequests = {}
         /\ (~is_update_prompt_mode(app) /\ ~is_setup_mode(app) /\ is_input_mode(app))
            => /\ app'.selected = app.selected
               /\ app'.expanded_repos = app.expanded_repos
               /\ ui' # "done"]_vars

\* the update prompt has taken a Down key over the wizard and the loaded
\* list, and both are as they were
C23_Witness ==
    /\ is_update_prompt_mode(app)
    /\ app.update_prompt.selected = 1
    /\ is_setup_mode(app)
    /\ app.setup.selected = 0
    /\ Len(app.setup.options) > 1
    /\ app.tree_items # <<>>
    /\ ui = "run_app"

\* default_worktree_name_is_configured, editor_is_configured and
\* terminal_is_configured, by step
is_configured(config, step) ==
    CASE step = "DefaultWorktreeName" -> config.default_worktree_name_set
      [] step = "Editor" -> config.editor # None
      [] step = "Terminal" -> config.terminal # None

\* the steps are in the order of the wizard, each at most once
InWizardOrder(steps) ==
    \A i, j \in DOMAIN steps :
        i < j => \E m, n \in 1..3 :
                    /\ m < n
                    /\ steps[i] = <<"DefaultWorktreeName", "Editor", "Terminal">>[m]
                    /\ steps[j] = <<"DefaultWorktreeName", "Editor", "Terminal">>[n]

\* the wizard shows the head of the queue, or nothing when the queue is empty
ShowsHead(a) ==
    /\ is_setup_mode(a) <=> a.setup_steps # <<>>
    /\ is_setup_mode(a) => a.setup.step = Head(a.setup_steps)

\* C24 as stated: a step of the wizard is removed from the queue only when
\* Enter has persisted the selected option, so the config then answers the
\* question of that step
C24_EnterPersists ==
    [][(SetupKey /\ app'.setup_steps # app.setup_steps)
          => is_configured(disk'.config, Head(app.setup_steps))]_vars

\* C24: the wizard is active exactly while the queue of steps is non-empty
\* and shows its head; the queue is in the order default-worktree-name,
\* editor, terminal; a key that removes a step removes the head, has written
\* the value of the selected option to the config when the option has one
\* and nothing when it has none, and starts the next step at its first
\* option; the config changes only in a step that removes the head; a key
\* that sets an Error status leaves the step, its selection, the queue and
\* the config as they were; any other key changes at most the selected
\* option
C24_WizardQueue ==
    [][/\ ShowsHead(app')
       /\ InWizardOrder(app'.setup_steps)
       /\ (SetupKey /\ ui' = "run_app")
          => LET value == saved_value(app.setup)
                 step == app.setup.step
             IN \/ /\ app'.setup_steps = Tail(app.setup_steps)
                   /\ is_setup_mode(app') => app'.setup.selected = 0
                   /\ IF value = None THEN disk' = disk
                      ELSE /\ is_configured(disk'.config, step)
                           /\ step = "Editor" => disk'.config.editor = value
                           /\ step = "Terminal" => disk'.config.terminal = value
                           /\ step = "DefaultWorktreeName"
                              => (disk'.config.default_worktree_name = "Cities")
                                    <=> (value = "cities")
                   /\ app'.status = app.status
                \/ /\ app'.setup_steps = app.setup_steps
                   /\ app'.setup = app.setup
                   /\ disk' = disk
                   /\ app'.status.tone = "Error"
                \/ /\ app'.setup_steps = app.setup_steps
                   /\ app'.setup.step = app.setup.step
                   /\ app'.setup.options = app.setup.options
                   /\ disk' = disk
                   /\ app'.status = app.status]_vars

\* the wizard has left the editor step by the option that has no value: the
\* terminal step is showing and the config still has no editor
C24_Witness ==
    /\ app.setup_steps = <<"Terminal">>
    /\ is_setup_mode(app)
    /\ app.setup.step = "Terminal"
    /\ disk.config.editor = None
    /\ app.editor_command = None
    /\ ui = "run_app"

\* the RunUpgrade requests sent whose UpgradeResult is not handled yet
Upgrading(a, w) ==
    Cardinality({i \in DOMAIN a.worker_tx : a.worker_tx[i].type = "RunUpgrade"})
    + (IF w.type = "RunUpgrade" THEN 1 ELSE 0)
    + Cardinality({i \in DOMAIN a.worker_rx : a.worker_rx[i].type = "UpgradeResult"})

\* C25: at most one RunUpgrade is outstanding, and while one is the update
\* prompt is there and running; a key handled then, or after an upgrade that
\* succeeded, changes nothing in the application and sends nothing unless it
\* ends the session, and after the upgrade that succeeded Enter does end it
C25_UpgradeInFlight ==
    [][/\ Upgrading(app', worker') <= 1
       /\ Upgrading(app', worker') = 1
          => is_update_prompt_mode(app') /\ app'.update_prompt.running
       /\ (UpdatePromptKey /\ Upgrading(app, worker) = 1)
          => /\ app' = app
             /\ ui' = "done"
             /\ ~app.update_prompt.completed
       /\ (UpdatePromptKey /\ app.update_prompt.completed)
          => /\ app' = app
             /\ ui' = "done"
       /\ (Handles("UpgradeResult") /\ Head(app.worker_rx).ok)
          => /\ app'.update_prompt.completed
             /\ ~app'.update_prompt.running]_vars

\* an upgrade has succeeded and the prompt waits for Enter
C25_Witness ==
    /\ is_update_prompt_mode(app)
    /\ app.update_prompt.completed
    /\ ~app.update_prompt.running
    /\ Shows(app, "Success", "Upgrade complete. Press Enter to quit and relaunch.")
    /\ ui = "run_app"

\* the index delta places on from index in a ring of len places
Wrapped(index, len, delta) == (index + delta + len) % len

\* C26: in every list a key moves in, the selected index is less than the
\* number of entries, and Down and Up lead from it to the next and the
\* previous index of the ring: the first after the last, the last before the
\* first, one more or one less otherwise; in an empty list of repos nothing
\* is selected and nothing is after a move
C26_MovesWrap ==
    \A delta \in {0 - 1, 1} :
        /\ IF app.tree_items = <<>>
           THEN move_selection(app, delta).selected = NoSel
           ELSE /\ app.selected \in 0 .. Len(app.tree_items) - 1
                /\ move_selection(app, delta).selected
                      = Wrapped(app.selected, Len(app.tree_items), delta)
        /\ app.setup.selected < Len(app.setup.options)
        /\ setup_move_selection(app, delta).setup.selected
              = Wrapped(app.setup.selected, Len(app.setup.options), delta)
        /\ app.update_prompt.selected < Len(UPDATE_PROMPT_OPTIONS)
        /\ update_move_selection(app, delta).update_prompt.selected
              = Wrapped(app.update_prompt.selected, Len(UPDATE_PROMPT_OPTIONS), delta)

\* the last entry of a list of three, the last of three terminals and the
\* last option of the update prompt are selected
C26_Witness ==
    /\ Len(app.tree_items) = 3
    /\ app.selected = 2
    /\ Len(app.setup.options) = 3
    /\ app.setup.selected = 2
    /\ app.update_prompt.selected = 2

\* C27: a turn of the watcher loop sends one FsChanged when its event is
\* relevant and 250 ms or more have passed since the last one was sent, and
\* nothing otherwise; last_event is the time of the last FsChanged sent, so
\* two of them are never less than 250 ms apart
C27_Debounce ==
    [][(watch_rx # <<>> /\ watch_rx' = Tail(watch_rx))
          => LET sent == Len(app'.worker_rx) - Len(app.worker_rx)
             IN /\ sent = (IF Head(watch_rx) /\ now - last_event >= 250 THEN 1 ELSE 0)
                /\ sent = 1 => /\ app'.worker_rx[Len(app'.worker_rx)].type = "FsChanged"
                               /\ last_event' = now
                /\ sent = 0 => last_event' = last_event
                /\ now' = now]_vars

\* FsChanged has been sent at 0 ms and again at 250 ms, the second exactly
\* one window after the first, and the watcher has emptied its queue by 400 ms
C27_Witness ==
    /\ Len(app.worker_rx) = 2
    /\ last_event = 250
    /\ now = 400
    /\ watch_rx = <<>>

\* the tree key a RestoreState names, NoKey when it names none
restored_key(state) ==
    IF state.selected_worktree # NoPair
    THEN worktree_key(state.selected_worktree.repo, state.selected_worktree.name)
    ELSE IF state.selected_repo # None THEN repo_key(state.selected_repo)
    ELSE NoKey

\* C28: a session that ends leaves in the restore file the expanded set and
\* the tree key of the selected item, unless the file could not be written;
\* once the first load of a session is applied, the directories being what
\* they were, the expanded set is the one in the restore file and the
\* selected item is the one whose own key is in the file
C28_RestoreRoundTrip ==
    [][/\ (ui = "run_app" /\ ui' = "done")
          => \/ disk'.restore = disk.restore
             \/ /\ disk'.restore.expanded_repos = app.expanded_repos
                /\ restored_key(disk'.restore) = selected_tree_key(app)
       /\ (/\ ui = "run_app"
           /\ Handles("AllDataLoaded")
           /\ Head(app.worker_rx).ok
           /\ app.request_seq = 1
           /\ app.pending_all_request = Head(app.worker_rx).request_id)
          => /\ app'.expanded_repos = disk.restore.expanded_repos
             /\ restored_key(disk.restore) # NoKey
                => selected_tree_key(app') = restored_key(disk.restore)]_vars

\* the first sequence is the beginning of the second
IsPrefix(s, t) == Len(s) <= Len(t) /\ SubSeq(t, 1, Len(s)) = s

\* C29: in a step during which the worker stays on the request it is
\* executing, the UI thread waits for no external process, and the requests
\* it has sent stay in the channel in their order, with the ones it sends
\* now behind them
C29_UiNeverWaits ==
    [][(worker # NoRequest /\ worker' = worker)
          => /\ ui_git' = NoGit
             /\ IsPrefix(app.worker_tx, app'.worker_tx)]_vars

\* the names list_repos reports
ListedNames(root) == {repo.name : repo \in list_repos(root)}

\* C30: when checkout_repo returns Ok(repo), no repo of that name was listed
\* before and list_repos lists exactly one repo of that name after, beside
\* the repos it listed before; when it returns an error the directories are
\* what they were, and RepoAlreadyExists is the error whenever the name the
\* source resolves to is the name of a listed repo
C30_CheckoutListsOnce ==
    [][(worker.type = "CheckoutRepo" /\ worker' = NoRequest)
          => LET event == app'.worker_rx[Len(app'.worker_rx)]
                 before == list_repos(disk.repos_root)
                 listed == list_repos(disk'.repos_root)
             IN IF event.ok
                THEN /\ event.repo \notin ListedNames(disk.repos_root)
                     /\ Cardinality({repo \in listed : repo.name = event.repo}) = 1
                     /\ before \subseteq listed
                     /\ Cardinality(listed) = Cardinality(before) + 1
                ELSE /\ disk' = disk
                     /\ (/\ repo_name_from_url(worker.url).ok
                         /\ repo_name_from_url(worker.url).name
                               \in ListedNames(disk.repos_root))
                        => event.err = "RepoAlreadyExists"]_vars

----------------------------------------------------------------------------
(* git.rs: worktrees and repos on disk *)

DisplayNames(listed) == {display_name(listed[i]) : i \in DOMAIN listed}

\* C31: creating a worktree and removing it by its name is a round trip on
\* the worktree list of the repo.  In every reachable state of the disk and
\* for every listed repo, directory name and branch: if the creation
\* succeeds, the list then holds an entry with that display name, and
\* remove_worktree of that name succeeds on the unchanged worktree and leaves
\* the list what it was before the creation; and remove_worktree of a name
\* that matches no listed worktree fails with WorktreeNotFound and changes
\* nothing
C31_WorktreeRoundTrip ==
    \A repo \in list_repos(disk.repos_root), name \in WtNames, branch \in BranchNames :
        LET before == list_worktrees(disk.worktrees, repo)
            created == create_worktree_with_name(disk.repos_root, disk.worktrees,
                                                 repo, name, branch, TRUE)
            removed == remove_worktree(disk.repos_root, created.worktrees, repo,
                                       name, TRUE)
            missing == remove_worktree(disk.repos_root, disk.worktrees, repo,
                                       name, TRUE)
        IN /\ created.ok =>
                /\ name \in DisplayNames(list_worktrees(created.worktrees, repo))
                /\ removed.ok
                /\ list_worktrees(removed.worktrees, repo) = before
           /\ (\A i \in DOMAIN before : ~worktree_matches_name(before[i], name)) =>
                /\ ~missing.ok
                /\ missing.err = "WorktreeNotFound"
                /\ missing.worktrees = disk.worktrees

\* the listed repos of that name that have a worktree
ReposWithWorktrees(name) ==
    {repo \in list_repos(disk.repos_root) :
        repo.name = name /\ list_worktrees(disk.worktrees, repo) # <<>>}

\* C32: remove_repo of a repo that has a worktree fails with
\* RepoHasWorktrees and leaves the repos and the worktrees on disk as they
\* were; and in every reachable state, after any sequence of checkouts,
\* worktree creations, worktree removals and repo removals, every worktree on
\* disk is registered in a repo directory that still exists
C32_RepoWithWorktreesStays ==
    /\ [](\A w \in disk.worktrees : w.git_dir \in disk.repos_root)
    /\ [][WorkerRemove /\ ReposWithWorktrees(worker.name) # {} =>
            /\ ~app'.worker_rx[1].ok
            /\ app'.worker_rx[1].err = "RepoHasWorktrees"
            /\ disk' = disk]_vars

----------------------------------------------------------------------------
(* app.rs: the ids of the reloads *)

\* the ids of the LoadAll requests and AllDataLoaded events in the channels
\* and at the worker
IdsInFlight ==
    {app.worker_tx[i].request_id :
        i \in {j \in DOMAIN app.worker_tx : app.worker_tx[j].type = "LoadAll"}}
    \cup (IF worker.type = "LoadAll" THEN {worker.request_id} ELSE {})
    \cup {app.worker_rx[i].request_id :
            i \in {j \in DOMAIN app.worker_rx : app.worker_rx[j].type = "AllDataLoaded"}}

\* C33: request ids are a counter incremented by one per LoadAll sent, so
\* every LoadAll carries an id greater than that of every LoadAll sent
\* before: in every reachable state no id sent so far is above request_seq,
\* the pending id is none or request_seq, and needs_reload is set only while
\* an id is pending; and every step leaves request_seq increased by the
\* number of LoadAll requests it sends, each with an id above the old
\* request_seq and the last with the new one
C33_RequestIdsIncrease ==
    /\ [](/\ \A id \in IdsInFlight : id <= app.request_seq
          /\ app.pending_all_request \in {NoId, app.request_seq}
          /\ app.needs_reload => app.pending_all_request # NoId)
    /\ [][/\ app'.request_seq = app.request_seq + Cardinality(SentLoadAll)
          /\ \A i \in SentLoadAll :
                /\ app'.worker_tx[i].request_id > app.request_seq
                /\ app'.worker_tx[i].request_id <= app'.request_seq
          /\ \A i, j \in SentLoadAll :
                i < j => app'.worker_tx[i].request_id < app'.worker_tx[j].request_id]_vars

\* the third reload is pending, an earlier one is still in the channels or at
\* the worker, and a change of the file system waits for the result
C33_Witness ==
    /\ app.request_seq = 3
    /\ app.pending_all_request = 3
    /\ app.needs_reload
    /\ \E id \in IdsInFlight : id < 3

\* C34: with the worker answering in the order of the requests, whenever no
\* reload is pending no LoadAll is queued or at the worker and no
\* AllDataLoaded waits in the event channel; and the result the App applies
\* (the one whose id is the pending id) is that of the last LoadAll sent
C34_LastReloadWins ==
    /\ [](app.pending_all_request = NoId => IdsInFlight = {})
    /\ [][Handles("AllDataLoaded")
             /\ Head(app.worker_rx).request_id = app.pending_all_request =>
          Head(app.worker_rx).request_id = app.request_seq]_vars

\* three reloads were sent, the results of the first two were discarded or
\* applied, the last one was applied and nothing is pending
C34_Witness ==
    /\ app.request_seq = 3
    /\ app.pending_all_request = NoId
    /\ app.repos # <<>>
    /\ ~app.needs_reload

----------------------------------------------------------------------------
(* The reload loop settles *)

\* nothing is pending and the indicators of the reload are gone
Quiet ==
    /\ app.pending_all_request = NoId
    /\ ~app.needs_reload
    /\ ~loading_message(app, "Repos")
    /\ ~loading_message(app, "Worktrees")

\* the events that make the App reload
ReloadTrigger(event) ==
    \/ event.type = "FsChanged"
    \/ event.type \in ActionResults /\ event.ok

\* C35: when the worker completes every request and the UI keeps taking
\* events, every reload trigger (an FsChanged or the result of a successful
\* action) that is next in the event channel, the last one included, is
\* followed by a state with no pending reload, needs_reload false, the Repos
\* and Worktrees indicators cleared and nothing in flight.  The result
\* applied last in that state was requested when the trigger was processed or
\* later: the step that processes a trigger sends a LoadAll or leaves
\* needs_reload set behind a pending one, and needs_reload is only cleared by
\* a step that sends a LoadAll
C35_ReloadSettles ==
    /\ [][/\ (Handles("FsChanged") \/ \E type \in ActionResults : Handles(type))
               /\ ReloadTrigger(Head(app.worker_rx)) =>
                  \/ SentLoadAll # {}
                  \/ app'.needs_reload /\ app'.pending_all_request # NoId
          /\ app.needs_reload /\ ~app'.needs_reload => SentLoadAll # {}]_vars
    /\ (app.worker_rx # <<>> /\ ReloadTrigger(Head(app.worker_rx)))
          ~> (Quiet /\ IdsInFlight = {})

\* the clone succeeded, the watcher reported it while the reload was pending,
\* the extra reload was sent and applied, and the App is quiet with r1 loaded
C35_Witness ==
    /\ Quiet
    /\ IdsInFlight = {}
    /\ app.worker_rx = <<>>
    /\ app.request_seq >= 3
    /\ app.repos = <<"r1">>
    /\ Shows(app, "Success", "Checked out")

\* the requests a user action sends
ActionRequests == {"CheckoutRepo", "CreateWorktree", "DeleteRepo", "DeleteWorktree"}

\* the user actions sent whose result has not been processed: in the request
\* channel, at the worker, or answered and waiting in the event channel
ActionsOutstanding ==
    Len(SelectSeq(app.worker_tx, LAMBDA r : r.type \in ActionRequests))
    + (IF worker.type \in ActionRequests THEN 1 ELSE 0)
    + Len(SelectSeq(app.worker_rx, LAMBDA e : e.type \in ActionResults))

\* C36: while a CheckoutRepo, CreateWorktree, DeleteRepo or DeleteWorktree has
\* been sent and its result has not been processed, the loading list holds a
\* message of the Action group; processing the result of one action leaves
\* the message of another one that is outstanding
C36_ActionIndicatorStays ==
    ActionsOutstanding > 0 => loading_message(app, "Action")


\* C37: the focus is Input exactly when a prompt is open, and the origin a
\* prompt records is List; Escape in a prompt, and an Enter after which no
\* prompt is open (the request was sent or the confirmation was declined),
\* leave the focus on the list
C37_FocusMatchesPrompt ==
    /\ [](/\ app.focus \in {"List", "Input"}
          /\ app.focus = "Input" <=> app.input # NoInput
          /\ app.input # NoInput => app.input.origin = "List")
    /\ [][(InputEsc \/ (InputEnter /\ app'.input = NoInput))
          => app'.focus = "List" /\ app'.input = NoInput]_vars

\* a prompt was opened and left without a request: the focus is back on the
\* list and no action was sent
C37_Witness ==
    /\ prompts_opened = 1
    /\ app.input = NoInput
    /\ app.focus = "List"
    /\ ActionsOutstanding = 0
    /\ ~loading_message(app, "Action")
    /\ app.status = NoStatus

\* C38: once the result of a reload that succeeded is applied, every name of
\* the expanded set is the name of a loaded repo, also when a worktree
\* selection from the restore file or from a created worktree is pending
C38_ExpandedAreLoaded ==
    [][(/\ Handles("AllDataLoaded")
        /\ Head(app.worker_rx).request_id = app.pending_all_request
        /\ Head(app.worker_rx).ok)
       => app'.expanded_repos \subseteq Range(app'.repos)]_vars

\* the prompts that name an item of the list
NamingKinds ==
    {"DeleteRepo", "DeleteWorktree", "DeleteWorktreeForce", "CreateWorktreeName",
     "CreateWorktreeSource", "CreateWorktreeBranch"}

\* C39: a prompt records the repo (and for a deletion the worktree) selected
\* in the step that opens it; no step taken while the prompt is open, a worker
\* event that rebuilds the tree or moves the selection included, changes what
\* it records; and a DeleteRepo, DeleteWorktree or CreateWorktree request
\* names what the prompt records
C39_RequestNamesPromptItem ==
    [][/\ (app.input = NoInput /\ app'.input.kind \in NamingKinds) =>
             /\ app'.input.repo = selected_repo_name(app)
             /\ app'.input.kind = "DeleteRepo" => selected_tree_item(app).kind = "Repo"
             /\ app'.input.kind = "DeleteWorktree" =>
                   app'.input.name = display_name(selected_worktree_entry(app).worktree)
       /\ (app.input.kind \in NamingKinds /\ app'.input # NoInput) =>
             /\ app'.input.repo = app.input.repo
             /\ app.input.kind \in {"DeleteWorktree", "DeleteWorktreeForce"} =>
                   app'.input.name = app.input.name
       /\ \A i \in NewRequests :
             LET r == app'.worker_tx[i]
             IN /\ r.type = "DeleteRepo" => r.name = app.input.repo
                /\ r.type = "DeleteWorktree" =>
                      r.repo = app.input.repo /\ r.name = app.input.name
                /\ r.type = "CreateWorktree" => r.repo = app.input.repo]_vars

\* a deletion was sent for a repo that a reload has taken off the list, and
\* the delete request is the only thing under way
C39_Witness ==
    /\ app.worker_tx # <<>>
    /\ app.worker_tx[Len(app.worker_tx)].type \in {"DeleteRepo", "DeleteWorktree"}
    /\ LET r == app.worker_tx[Len(app.worker_tx)]
       IN (IF r.type = "DeleteRepo" THEN r.name ELSE r.repo) \notin Range(app.repos)
    /\ IdsInFlight = {}
    /\ app.pending_all_request = NoId
    /\ Len(app.worker_tx) = 1
    /\ worker = NoRequest
    /\ app.worker_rx = <<>>

\* C40: the debounce loses no relevant change of the file system: once the
\* file system has stopped changing, the App comes to hold, and keeps, what a
\* scan started after the last change finds
C40_NoChangeLost ==
    <>[](/\ app.repos = scan_disk(disk).repos
         /\ app.repo_worktrees = scan_disk(disk).repo_worktrees)

====
